---------------------------- MODULE Spec2Model ----------------------------
(*
  The amana-marketing dashboard: the device, weekly, region and demographic
  pages (fetch of one snapshot, aggregation of the campaigns' breakdown lists,
  derived view values) and the two chart components (LineChart, BubbleMap).

  JavaScript numbers are modelled as exact rationals plus the values a
  JavaScript expression can produce besides a finite number: undefined (a
  missing field), NaN, Infinity and -Infinity.  Rounding of binary floating
  point is not modelled: the inputs are small integers and the reference
  coordinates are decimal fractions.
*)
EXTENDS Integers, Sequences, FiniteSets

VARIABLES
    page,       \* the page component that is mounted
    fetchPc,    \* where its fetchData is: "fetch", "json", "loaded" or "failed"
    data,       \* its state data: null or the fetched snapshot
    loading,    \* its state loading
    view,       \* the values its last render computed
    props,      \* the props of a chart component: the caller's data array and height
    geometry    \* what the chart component's last render drew

pageVars == <<page, fetchPc, data, loading, view>>
chartVars == <<props, geometry>>
vars == <<page, fetchPc, data, loading, view, props, geometry>>

-----------------------------------------------------------------------------
(* Bounds of the model. *)

\* the longest campaign list a fetched snapshot holds
MaxCampaigns == 2
\* the most breakdown records of a snapshot, over all its campaigns
MaxRecords == 3
\* the most breakdown records of a snapshot that is followed through its renders
MaxRenderRecords == 2
\* the longest data array handed to a chart component
MaxPoints == 3
\* the largest value of a point handed to a chart component
MaxValue == 3

-----------------------------------------------------------------------------
(* JavaScript numbers. *)

Abs(i) == IF i < 0 THEN -i ELSE i

RECURSIVE Gcd(_, _)
Gcd(a, b) == IF b = 0 THEN a ELSE Gcd(b, a % b)

\* n / d with the common factor g > 0 taken out
Reduced(n, d, g) == [t |-> "number", n |-> n \div g, d |-> d \div g]

\* the finite number n / d (d # 0), in lowest terms with a positive denominator
Rat(n, d) ==
    IF d < 0 THEN Reduced(-n, -d, Gcd(Abs(n), Abs(d)))
    ELSE Reduced(n, d, Gcd(Abs(n), Abs(d)))

\* (an / ad) * (bn / bd) with g1 = gcd(an, bd) and g2 = gcd(bn, ad) taken out
\* before multiplying
RatMulBy(an, ad, bn, bd, g1, g2) ==
    Rat((an \div g1) * (bn \div g2), (ad \div g2) * (bd \div g1))

RatMul(an, ad, bn, bd) ==
    RatMulBy(an, ad, bn, bd, Gcd(Abs(an), Abs(bd)), Gcd(Abs(bn), Abs(ad)))

\* (an / ad) + (bn / bd) over the least common denominator, g = gcd(ad, bd)
RatAddBy(an, ad, bn, bd, g) ==
    Rat(an * (bd \div g) + bn * (ad \div g), (ad \div g) * bd)

RatAdd(an, ad, bn, bd) == RatAddBy(an, ad, bn, bd, Gcd(ad, bd))

Num(i) == [t |-> "number", n |-> i, d |-> 1]
NaN == [t |-> "NaN", n |-> 0, d |-> 1]
Infinity == [t |-> "Infinity", n |-> 0, d |-> 1]
NegInfinity == [t |-> "-Infinity", n |-> 0, d |-> 1]
undefined == [t |-> "undefined", n |-> 0, d |-> 1]

IsFinite(a) == a.t = "number"
IsInf(a) == a.t \in {"Infinity", "-Infinity"}

\* the sign of a number that is not NaN or undefined
Sign(a) ==
    IF a.t = "Infinity" THEN 1
    ELSE IF a.t = "-Infinity" THEN -1
    ELSE IF a.n > 0 THEN 1 ELSE IF a.n < 0 THEN -1 ELSE 0

\* ToNumber: undefined converts to NaN
ToNumber(a) == IF a.t = "undefined" THEN NaN ELSE a

\* a + b on operands that went through ToNumber
NumAdd(a, b) ==
    IF a.t = "NaN" \/ b.t = "NaN" THEN NaN
    ELSE IF IsInf(a) /\ IsInf(b) THEN (IF a.t = b.t THEN a ELSE NaN)
    ELSE IF IsInf(a) THEN a
    ELSE IF IsInf(b) THEN b
    ELSE RatAdd(a.n, a.d, b.n, b.d)

\* a + b
JsAdd(a, b) == NumAdd(ToNumber(a), ToNumber(b))

NumNeg(a) ==
    IF a.t = "NaN" THEN NaN
    ELSE IF a.t = "Infinity" THEN NegInfinity
    ELSE IF a.t = "-Infinity" THEN Infinity
    ELSE [t |-> "number", n |-> -a.n, d |-> a.d]

\* -a
JsNeg(a) == NumNeg(ToNumber(a))

\* a - b
JsSub(a, b) == JsAdd(a, JsNeg(b))

NumMul(a, b) ==
    IF a.t = "NaN" \/ b.t = "NaN" THEN NaN
    ELSE IF IsInf(a) \/ IsInf(b)
         THEN (IF Sign(a) * Sign(b) = 0 THEN NaN
               ELSE IF Sign(a) * Sign(b) > 0 THEN Infinity ELSE NegInfinity)
    ELSE RatMul(a.n, a.d, b.n, b.d)

\* a * b
JsMul(a, b) == NumMul(ToNumber(a), ToNumber(b))

\* a finite number over zero is Infinity or -Infinity, 0 / 0 is NaN
NumDiv(a, b) ==
    IF a.t = "NaN" \/ b.t = "NaN" THEN NaN
    ELSE IF IsInf(a) /\ IsInf(b) THEN NaN
    ELSE IF IsInf(a)
         THEN (IF Sign(a) * (IF b.n < 0 THEN -1 ELSE 1) > 0
               THEN Infinity ELSE NegInfinity)
    ELSE IF IsInf(b) THEN Num(0)
    ELSE IF b.n = 0
         THEN (IF a.n = 0 THEN NaN
               ELSE IF a.n > 0 THEN Infinity ELSE NegInfinity)
    ELSE RatMul(a.n, a.d, b.d, b.n)

\* a / b
JsDiv(a, b) == NumDiv(ToNumber(a), ToNumber(b))

\* false as soon as one side is NaN
NumGt(a, b) ==
    IF a.t = "NaN" \/ b.t = "NaN" THEN FALSE
    ELSE IF a.t = "-Infinity" \/ b.t = "Infinity" THEN FALSE
    ELSE IF a.t = "Infinity" \/ b.t = "-Infinity" THEN TRUE
    ELSE a.n * b.d > b.n * a.d

\* a > b
JsGt(a, b) == NumGt(ToNumber(a), ToNumber(b))

\* a === b on numbers: NaN is not equal to itself
JsStrictEq(a, b) ==
    /\ a.t # "NaN"
    /\ b.t # "NaN"
    /\ a = b

\* truthiness of a number: 0, NaN and undefined are falsy
Truthy(a) == IsInf(a) \/ (a.t = "number" /\ a.n # 0)

\* a || b
JsOr(a, b) == IF Truthy(a) THEN a ELSE b

-----------------------------------------------------------------------------
(* Sequences. *)

\* the sequences over S of length at most n
BSeq(S, n) == UNION {[1..k -> S] : k \in 0..n}

RECURSIVE SeqSum(_)
SeqSum(s) == IF s = <<>> THEN 0 ELSE Head(s) + SeqSum(Tail(s))

-----------------------------------------------------------------------------
(* The fetched snapshot: { campaigns?: Campaign[] }, each campaign carrying
   the breakdown list its page reads.  An optional list is a record
   [defined, items]; a missing numeric field holds undefined. *)

AbsentList == [defined |-> FALSE, items |-> <<>>]
List(s) == [defined |-> TRUE, items |-> s]

\* the state variable data before any fetch: null
Null == [null |-> TRUE, campaigns |-> AbsentList]

Pages == {"device", "weekly", "region", "demographic"}

\* the five summed fields of a breakdown record
Metrics(i, c, v, s, r) ==
    [impressions |-> i, clicks |-> c, conversions |-> v, spend |-> s, revenue |-> r]

\* records of device_performance
DeviceRecord(device, m, ctr, traffic) ==
    [device |-> device, impressions |-> m.impressions, clicks |-> m.clicks,
     conversions |-> m.conversions, spend |-> m.spend, revenue |-> m.revenue,
     ctr |-> ctr, percentage_of_traffic |-> traffic]

DevicePool ==
    { DeviceRecord("Mobile", Metrics(Num(5), Num(3), Num(1), Num(2), Num(4)), Num(60), Num(70)),
      DeviceRecord("Mobile", Metrics(Num(1), Num(0), Num(0), Num(0), Num(3)), Num(0), Num(10)),
      DeviceRecord("Desktop", Metrics(Num(4), Num(2), Num(1), Num(3), Num(1200)), Num(50), Num(30)),
      DeviceRecord("Tablet", Metrics(Num(0), Num(0), Num(0), Num(0), Num(0)), Num(0), Num(0)),
      DeviceRecord("Desktop", Metrics(Num(2), Num(1), undefined, undefined, Num(1)), undefined, Num(20)) }

\* records of weekly_performance
WeeklyRecord(week_start, week_end, m) ==
    [week_start |-> week_start, week_end |-> week_end,
     impressions |-> m.impressions, clicks |-> m.clicks,
     conversions |-> m.conversions, spend |-> m.spend, revenue |-> m.revenue]

WeeklyPool ==
    { WeeklyRecord("2024-01-15", "2024-01-21", Metrics(Num(5), Num(3), Num(1), Num(2), Num(4))),
      WeeklyRecord("2024-01-01", "2024-01-07", Metrics(Num(1), Num(0), Num(0), Num(0), Num(3))),
      WeeklyRecord("2024-01-08", "2024-01-14", Metrics(Num(4), Num(2), Num(1), Num(3), Num(1))),
      WeeklyRecord("2024-01-01", "2024-01-06", Metrics(Num(0), Num(0), Num(0), Num(0), Num(0))),
      WeeklyRecord("2024-01-08", "2024-01-14", Metrics(Num(2), undefined, Num(1), Num(1), undefined)) }

\* records of regional_performance
RegionRecord(region, country, m) ==
    [region |-> region, country |-> country,
     impressions |-> m.impressions, clicks |-> m.clicks,
     conversions |-> m.conversions, spend |-> m.spend, revenue |-> m.revenue]

RegionPool ==
    { RegionRecord("Dubai", "UAE", Metrics(Num(5), Num(3), Num(1), Num(2), Num(4))),
      RegionRecord("Dubai", "Oman", Metrics(Num(1), Num(0), Num(0), Num(0), Num(3))),
      RegionRecord("Sharjah", "UAE", Metrics(Num(4), Num(2), Num(1), Num(3), Num(1200))),
      RegionRecord("Cairo", "Egypt", Metrics(Num(0), Num(0), Num(0), Num(0), Num(0))),
      RegionRecord("Cairo", "Egypt", Metrics(Num(2), Num(1), undefined, undefined, Num(1))) }

\* records of demographic_breakdown
DemographicRecord(age_group, gender, pct, clicks) ==
    [age_group |-> age_group, gender |-> gender, percentage_of_audience |-> pct,
     performance |-> [clicks |-> clicks]]

DemographicPool ==
    { DemographicRecord("18-24", "Male", Num(25), Num(3)),
      DemographicRecord("18-24", "Female", Num(40), Num(2)),
      DemographicRecord("25-34", "Male", Num(10), Num(1)),
      DemographicRecord("25-34", "Other", Num(50), Num(4)) }

\* the campaign-level (spend, revenue) totals a demographic campaign carries
CampaignTotals == << <<Num(1000), Num(2000)>>, <<Num(300), Num(0)>> >>

Pool(p) ==
    CASE p = "device" -> DevicePool
      [] p = "weekly" -> WeeklyPool
      [] p = "region" -> RegionPool
      [] p = "demographic" -> DemographicPool

\* how n records are split over at most MaxCampaigns campaigns: per campaign,
\* whether its breakdown list is there and how many records it holds
Shapes(n) ==
    { sh \in BSeq([defined : BOOLEAN, len : 0..n], MaxCampaigns) :
        /\ SeqSum([i \in 1..Len(sh) |-> sh[i].len]) = n
        /\ \A i \in 1..Len(sh) : ~sh[i].defined => sh[i].len = 0 }

\* the index before the first record of campaign i
Offset(sh, i) == SeqSum([j \in 1..(i - 1) |-> sh[j].len])

Breakdown(recs, sh, i) ==
    IF sh[i].defined
    THEN List(SubSeq(recs, Offset(sh, i) + 1, Offset(sh, i) + sh[i].len))
    ELSE AbsentList

CampaignName(i) == CASE i = 1 -> "A" [] i = 2 -> "B" [] i = 3 -> "C" [] OTHER -> "D"

\* campaign i of a snapshot for page p; tot picks the campaign-level totals
Campaign(p, recs, sh, tot, i) ==
    CASE p = "device" ->
           [campaign_name |-> CampaignName(i), device_performance |-> Breakdown(recs, sh, i)]
      [] p = "weekly" ->
           [campaign_name |-> CampaignName(i), weekly_performance |-> Breakdown(recs, sh, i)]
      [] p = "region" ->
           [campaign_name |-> CampaignName(i), regional_performance |-> Breakdown(recs, sh, i)]
      [] p = "demographic" ->
           [name |-> CampaignName(i), demographic_breakdown |-> Breakdown(recs, sh, i),
            spend |-> tot[i][1], revenue |-> tot[i][2]]

\* the totals vary per campaign on the demographic page only: either every
\* campaign carries the first totals or the campaigns take the two in turn
TotalsChoices(p, k) ==
    IF p = "demographic"
    THEN { [i \in 1..k |-> CampaignTotals[1]],
           [i \in 1..k |-> CampaignTotals[(i % 2) + 1]] }
    ELSE {[i \in 1..k |-> <<Num(0), Num(0)>>]}

\* the shapes of the snapshots of n records, for every n
ShapeTable == [n \in 0..MaxRecords |-> Shapes(n)]

\* a JSON document without the campaigns field
NoCampaigns == [null |-> FALSE, campaigns |-> AbsentList]

\* the JSON document of page p holding the records recs split as sh
Snapshot(p, recs, sh, tot) ==
    [null |-> FALSE,
     campaigns |-> List([i \in 1..Len(sh) |-> Campaign(p, recs, sh, tot, i)])]

-----------------------------------------------------------------------------
(* Map: an insertion-ordered sequence of [key, val] entries. *)

MapHas(m, k) == \E i \in 1..Len(m) : m[i].key = k

MapGet(m, k) == m[CHOOSE i \in 1..Len(m) : m[i].key = k].val

\* MapSet putting a new key in front
MapSetFront(m, k, v) ==
    IF MapHas(m, k)
    THEN [i \in 1..Len(m) |-> IF m[i].key = k THEN [key |-> k, val |-> v] ELSE m[i]]
    ELSE <<[key |-> k, val |-> v]>> \o m

\* Map.prototype.set: replaces the value of a present key in place, appends a new key
MapSet(m, k, v) ==
    IF MapHas(m, k)
    THEN [i \in 1..Len(m) |-> IF m[i].key = k THEN [key |-> k, val |-> v] ELSE m[i]]
    ELSE Append(m, [key |-> k, val |-> v])

\* data?.campaigns?.length, as a condition
HasCampaigns(d) == ~d.null /\ d.campaigns.defined /\ Len(d.campaigns.items) # 0

-----------------------------------------------------------------------------
(* Device page: aggregatedDeviceData. *)

\* deviceMap once the key is in it: a new key starts from zeros
WithDeviceKey(deviceMap, key) ==
    IF ~MapHas(deviceMap, key)
    THEN MapSet(deviceMap, key,
                [impressions |-> Num(0), clicks |-> Num(0), conversions |-> Num(0),
                 spend |-> Num(0), revenue |-> Num(0), traffic |-> Num(0)])
    ELSE deviceMap

\* existing after the six += of one device record
DevicePlus(existing, device) ==
    [impressions |-> JsAdd(existing.impressions, device.impressions),
     clicks |-> JsAdd(existing.clicks, device.clicks),
     conversions |-> JsAdd(existing.conversions, device.conversions),
     spend |-> JsAdd(existing.spend, device.spend),
     revenue |-> JsAdd(existing.revenue, device.revenue),
     traffic |-> JsAdd(existing.traffic, device.percentage_of_traffic)]

\* the entry of the key is updated in place
Accumulated(m, key, val) == MapSet(m, key, val)

DeviceAccumulate(m, device) ==
    Accumulated(m, device.device, DevicePlus(MapGet(m, device.device), device))

\* the body of the inner forEach: one device record added to deviceMap
AddDevice(deviceMap, device) ==
    DeviceAccumulate(WithDeviceKey(deviceMap, device.device), device)

RECURSIVE DeviceRecordsForEach(_, _)
DeviceRecordsForEach(deviceMap, records) ==
    IF records = <<>> THEN deviceMap
    ELSE DeviceRecordsForEach(AddDevice(deviceMap, Head(records)), Tail(records))

\* AddDeviceCampaign leaving the aggregation empty-handed at a missing list
AddDeviceCampaignAbsentClears(deviceMap, campaign) ==
    IF ~campaign.device_performance.defined THEN <<>>
    ELSE DeviceRecordsForEach(deviceMap, campaign.device_performance.items)

\* the body of the outer forEach: a campaign without device_performance is skipped
AddDeviceCampaign(deviceMap, campaign) ==
    IF ~campaign.device_performance.defined THEN deviceMap
    ELSE DeviceRecordsForEach(deviceMap, campaign.device_performance.items)

RECURSIVE DeviceCampaignsForEach(_, _)
DeviceCampaignsForEach(deviceMap, campaigns) ==
    IF campaigns = <<>> THEN deviceMap
    ELSE DeviceCampaignsForEach(AddDeviceCampaign(deviceMap, Head(campaigns)), Tail(campaigns))

\* Array.from(deviceMap.entries()).map(([device, stats]) => ({ device, ...stats }))
DeviceRows(deviceMap) ==
    [i \in 1..Len(deviceMap) |->
        [device |-> deviceMap[i].key,
         impressions |-> deviceMap[i].val.impressions,
         clicks |-> deviceMap[i].val.clicks,
         conversions |-> deviceMap[i].val.conversions,
         spend |-> deviceMap[i].val.spend,
         revenue |-> deviceMap[i].val.revenue,
         traffic |-> deviceMap[i].val.traffic]]

aggregatedDeviceData(d) ==
    IF d.null \/ ~d.campaigns.defined \/ Len(d.campaigns.items) = 0 THEN <<>>
    ELSE DeviceRows(DeviceCampaignsForEach(<<>>, d.campaigns.items))

deviceData(d) == IF HasCampaigns(d) THEN aggregatedDeviceData(d) ELSE <<>>

-----------------------------------------------------------------------------
(* Weekly page: aggregatedWeeklyData. *)

\* new Date(s).getTime() of a date-only ISO string, in days since the epoch
\* (the code's unit is the millisecond; the order is the same)
DateGetTime(s) ==
    CASE s = "2024-01-01" -> Num(19723)
      [] s = "2024-01-08" -> Num(19730)
      [] s = "2024-01-15" -> Num(19737)
      [] OTHER -> NaN

\* weeklyMap once the key is in it: a new key starts from zeros and takes the
\* record's dates
WithWeekKey(weeklyMap, week) ==
    IF ~MapHas(weeklyMap, week.week_start)
    THEN MapSet(weeklyMap, week.week_start,
                [spend |-> Num(0), revenue |-> Num(0), impressions |-> Num(0),
                 clicks |-> Num(0), conversions |-> Num(0),
                 weekStart |-> week.week_start, weekEnd |-> week.week_end])
    ELSE weeklyMap

\* WeekPlus taking the dates of the record at hand
WeekPlusLastDates(existing, week) ==
    [spend |-> JsAdd(existing.spend, week.spend),
     revenue |-> JsAdd(existing.revenue, week.revenue),
     impressions |-> JsAdd(existing.impressions, week.impressions),
     clicks |-> JsAdd(existing.clicks, week.clicks),
     conversions |-> JsAdd(existing.conversions, week.conversions),
     weekStart |-> week.week_start, weekEnd |-> week.week_end]

\* existing after the five += of one week record
WeekPlus(existing, week) ==
    [spend |-> JsAdd(existing.spend, week.spend),
     revenue |-> JsAdd(existing.revenue, week.revenue),
     impressions |-> JsAdd(existing.impressions, week.impressions),
     clicks |-> JsAdd(existing.clicks, week.clicks),
     conversions |-> JsAdd(existing.conversions, week.conversions),
     weekStart |-> existing.weekStart, weekEnd |-> existing.weekEnd]

WeekAccumulate(m, week) ==
    Accumulated(m, week.week_start, WeekPlus(MapGet(m, week.week_start), week))

\* the body of the inner forEach: one week record added to weeklyMap
AddWeek(weeklyMap, week) == WeekAccumulate(WithWeekKey(weeklyMap, week), week)

RECURSIVE WeekRecordsForEach(_, _)
WeekRecordsForEach(weeklyMap, records) ==
    IF records = <<>> THEN weeklyMap
    ELSE WeekRecordsForEach(AddWeek(weeklyMap, Head(records)), Tail(records))

\* the body of the outer forEach: a campaign without weekly_performance is skipped
AddWeekCampaign(weeklyMap, campaign) ==
    IF ~campaign.weekly_performance.defined THEN weeklyMap
    ELSE WeekRecordsForEach(weeklyMap, campaign.weekly_performance.items)

RECURSIVE WeekCampaignsForEach(_, _)
WeekCampaignsForEach(weeklyMap, campaigns) ==
    IF campaigns = <<>> THEN weeklyMap
    ELSE WeekCampaignsForEach(AddWeekCampaign(weeklyMap, Head(campaigns)), Tail(campaigns))

\* WeekAfter with the operands of the subtraction exchanged
WeekAfterDescending(a, b) ==
    JsGt(JsSub(DateGetTime(b.weekStart), DateGetTime(a.weekStart)), Num(0))

\* the sort's comparator: a sorts after b when the difference of the times is > 0
WeekAfter(a, b) ==
    JsGt(JsSub(DateGetTime(a.weekStart), DateGetTime(b.weekStart)), Num(0))

\* row put into an ascending sequence, behind the rows it does not precede
RECURSIVE InsertWeek(_, _)
InsertWeek(sorted, row) ==
    IF sorted = <<>> THEN <<row>>
    ELSE IF WeekAfter(Head(sorted), row) THEN <<row>> \o sorted
    ELSE <<Head(sorted)>> \o InsertWeek(Tail(sorted), row)

\* Array.prototype.sort with the week comparator: stable, ascending
RECURSIVE SortWeeks(_)
SortWeeks(rows) ==
    IF rows = <<>> THEN <<>>
    ELSE InsertWeek(SortWeeks(SubSeq(rows, 1, Len(rows) - 1)), rows[Len(rows)])

\* Array.from(weeklyMap.values())
MapValues(m) == [i \in 1..Len(m) |-> m[i].val]

aggregatedWeeklyData(d) ==
    IF d.null \/ ~d.campaigns.defined \/ Len(d.campaigns.items) = 0 THEN <<>>
    ELSE SortWeeks(MapValues(WeekCampaignsForEach(<<>>, d.campaigns.items)))

weeklyData(d) == IF HasCampaigns(d) THEN aggregatedWeeklyData(d) ELSE <<>>

\* rows.reduce((sum, row) => sum + row[field], 0)
RECURSIVE ReduceSum(_, _, _)
ReduceSum(rows, field, sum) ==
    IF rows = <<>> THEN sum
    ELSE ReduceSum(Tail(rows), field, JsAdd(sum, Head(rows)[field]))

\* totals / (weeklyData.length || 1)
Average(total, length) == JsDiv(total, IF length # 0 THEN Num(length) ELSE Num(1))

\* the values WeeklyView derives from weeklyData
WeeklyValues(rows, totalRevenue, totalSpend) ==
    [weeklyData |-> rows,
     totalRevenue |-> totalRevenue,
     totalSpend |-> totalSpend,
     totalClicks |-> ReduceSum(rows, "clicks", Num(0)),
     totalConversions |-> ReduceSum(rows, "conversions", Num(0)),
     avgWeeklyRevenue |-> Average(totalRevenue, Len(rows)),
     avgWeeklySpend |-> Average(totalSpend, Len(rows)),
     error |-> "none"]

WeeklyFrom(rows) ==
    WeeklyValues(rows, ReduceSum(rows, "revenue", Num(0)), ReduceSum(rows, "spend", Num(0)))

\* the values of one render of WeeklyView
RenderWeekly(d) == WeeklyFrom(weeklyData(d))

-----------------------------------------------------------------------------
(* Region page: cityCoordinates, aggregatedRegionalData, the bubble point
   sets, the summary values and the table. *)

\* one entry of cityCoordinates; x and y are given in 1/10000 degree
City(city, x, y, country) ==
    [city |-> city, x |-> Rat(x, 10000), y |-> Rat(y, 10000), country |-> country]

\* Object.entries(cityCoordinates): the entries in the order of the literal
cityCoordinates ==
    << 
       City("Dubai", 552708, 252048, "UAE"),
       City("Abu Dhabi", 543773, 244539, "UAE"),
       City("Riyadh", 466753, 247136, "Saudi Arabia"),
       City("Jeddah", 391925, 215433, "Saudi Arabia"),
       City("Cairo", 312357, 300444, "Egypt"),
       City("Doha", 515310, 252854, "Qatar"),
       City("Kuwait", 479774, 293759, "Kuwait"),
       City("Manama", 505577, 260667, "Bahrain"),
       City("Muscat", 584059, 235880, "Oman"),
       City("Amman", 359450, 319539, "Jordan"),
       City("Beirut", 355018, 338886, "Lebanon"),
       City("Casablanca", -75898, 335731, "Morocco"),
       City("Tunis", 101815, 368065, "Tunisia"),
       City("Algiers", 30588, 367538, "Algeria"),
       City("Paris", 23522, 488566, "France"),
       City("London", -1276, 515074, "United Kingdom"),
       City("Madrid", -37038, 404168, "Spain"),
       City("Rome", 124964, 419028, "Italy"),
       City("Berlin", 134050, 525200, "Germany"),
       City("Istanbul", 289784, 410082, "Turkey")
    >>

\* regionalMap once the key is in it: a new key starts from zeros and takes
\* the record's country
WithRegionKey(regionalMap, region) ==
    IF ~MapHas(regionalMap, region.region)
    THEN MapSet(regionalMap, region.region,
                [spend |-> Num(0), revenue |-> Num(0), impressions |-> Num(0),
                 clicks |-> Num(0), conversions |-> Num(0),
                 country |-> region.country])
    ELSE regionalMap

\* RegionPlus with = in the place of +=
RegionPlusAssign(existing, region) ==
    [spend |-> region.spend,
     revenue |-> region.revenue,
     impressions |-> region.impressions,
     clicks |-> region.clicks,
     conversions |-> region.conversions,
     country |-> existing.country]

\* existing after the five += of one region record
RegionPlus(existing, region) ==
    [spend |-> JsAdd(existing.spend, region.spend),
     revenue |-> JsAdd(existing.revenue, region.revenue),
     impressions |-> JsAdd(existing.impressions, region.impressions),
     clicks |-> JsAdd(existing.clicks, region.clicks),
     conversions |-> JsAdd(existing.conversions, region.conversions),
     country |-> existing.country]

RegionAccumulate(m, region) ==
    Accumulated(m, region.region, RegionPlus(MapGet(m, region.region), region))

\* the body of the inner forEach: one region record added to regionalMap
AddRegion(regionalMap, region) ==
    RegionAccumulate(WithRegionKey(regionalMap, region), region)

RECURSIVE RegionRecordsForEach(_, _)
RegionRecordsForEach(regionalMap, records) ==
    IF records = <<>> THEN regionalMap
    ELSE RegionRecordsForEach(AddRegion(regionalMap, Head(records)), Tail(records))

\* AddRegionCampaign reading regional_performance[0] alone
AddRegionCampaignFirstRecord(regionalMap, campaign) ==
    IF ~campaign.regional_performance.defined THEN regionalMap
    ELSE IF campaign.regional_performance.items = <<>> THEN regionalMap
    ELSE RegionRecordsForEach(regionalMap, <<campaign.regional_performance.items[1]>>)

\* the body of the outer forEach: a campaign without regional_performance is skipped
AddRegionCampaign(regionalMap, campaign) ==
    IF ~campaign.regional_performance.defined THEN regionalMap
    ELSE RegionRecordsForEach(regionalMap, campaign.regional_performance.items)

RECURSIVE RegionCampaignsForEach(_, _)
RegionCampaignsForEach(regionalMap, campaigns) ==
    IF campaigns = <<>> THEN regionalMap
    ELSE RegionCampaignsForEach(AddRegionCampaign(regionalMap, Head(campaigns)), Tail(campaigns))

\* Array.from(regionalMap.entries()).map(([region, data]) => ({ region, ...data }))
RegionRows(regionalMap) ==
    [i \in 1..Len(regionalMap) |->
        [region |-> regionalMap[i].key,
         spend |-> regionalMap[i].val.spend,
         revenue |-> regionalMap[i].val.revenue,
         impressions |-> regionalMap[i].val.impressions,
         clicks |-> regionalMap[i].val.clicks,
         conversions |-> regionalMap[i].val.conversions,
         country |-> regionalMap[i].val.country]]

aggregatedRegionalData(d) ==
    IF d.null \/ ~d.campaigns.defined \/ Len(d.campaigns.items) = 0 THEN <<>>
    ELSE RegionRows(RegionCampaignsForEach(<<>>, d.campaigns.items))

regionalData(d) == IF HasCampaigns(d) THEN aggregatedRegionalData(d) ELSE <<>>

\* new Map(regionalData.map(r => [r.region, r])): a later row replaces an earlier
\* one of the same region
RECURSIVE regionalDataMap(_)
regionalDataMap(rows) ==
    IF rows = <<>> THEN <<>>
    ELSE MapSet(regionalDataMap(SubSeq(rows, 1, Len(rows) - 1)),
                rows[Len(rows)].region, rows[Len(rows)])

\* regionData?.field: undefined when the city has no row
OptField(rmap, city, field) ==
    IF MapHas(rmap, city) THEN MapGet(rmap, city)[field] ELSE undefined

\* RevenuePoint with || 0 for the value too
RevenuePointZeroSentinel(rmap, c) ==
    [city |-> c.city, country |-> c.country,
     value |-> JsOr(OptField(rmap, c.city, "revenue"), Num(0)),
     secondaryValue |-> JsOr(OptField(rmap, c.city, "spend"), Num(0)),
     x |-> c.x, y |-> c.y]

\* the point of one city in the revenue map
RevenuePoint(rmap, c) ==
    [city |-> c.city, country |-> c.country,
     value |-> JsOr(OptField(rmap, c.city, "revenue"), Num(1000)),
     secondaryValue |-> JsOr(OptField(rmap, c.city, "spend"), Num(0)),
     x |-> c.x, y |-> c.y]

\* the point of one city in the spend map
SpendPoint(rmap, c) ==
    [city |-> c.city, country |-> c.country,
     value |-> JsOr(OptField(rmap, c.city, "spend"), Num(1000)),
     secondaryValue |-> JsOr(OptField(rmap, c.city, "revenue"), Num(0)),
     x |-> c.x, y |-> c.y]

\* Object.entries(cityCoordinates).map(...) with the lookup map rmap
RevenuePoints(rmap) ==
    [i \in 1..Len(cityCoordinates) |-> RevenuePoint(rmap, cityCoordinates[i])]

SpendPoints(rmap) ==
    [i \in 1..Len(cityCoordinates) |-> SpendPoint(rmap, cityCoordinates[i])]

bubbleMapDataRevenue(rows) == RevenuePoints(regionalDataMap(rows))

bubbleMapDataSpend(rows) == SpendPoints(regionalDataMap(rows))

\* x.toFixed(2): the text of a finite number is given by its value in
\* hundredths, rounded half away from zero; Infinity and NaN print their names
Hundredths(n, q) == [text |-> "digits", hundredths |-> IF n < 0 THEN -q ELSE q]

ToFixed2(a) ==
    IF a.t = "number" THEN Hundredths(a.n, (200 * Abs(a.n) + a.d) \div (2 * a.d))
    ELSE [text |-> a.t, hundredths |-> 0]

\* ((revenue / spend) || 0), the number handed to toFixed
RoasOrZero(revenue, spend) == JsOr(JsDiv(revenue, spend), Num(0))

\* a table row from its ROAS number
RegionTableRowOf(region, roasValue) ==
    [region |-> region.region, country |-> region.country,
     roasValue |-> roasValue, roas |-> ToFixed2(roasValue)]

\* one row of the region table; the columns that only print a total are left out
RegionTableRow(region) ==
    RegionTableRowOf(region, RoasOrZero(region.revenue, region.spend))

\* the permutations of 1..n
Perms(n) == {f \in [1..n -> 1..n] : \A i, j \in 1..n : i # j => f[i] # f[j]}

\* (a, b) => b.revenue - a.revenue is > 0: a sorts after b
RevenueAfter(a, b) == JsGt(JsSub(b.revenue, a.revenue), Num(0))

\* regionalData.sort((a, b) => b.revenue - a.revenue): the orders the sort can
\* leave the rows in.  With finite revenues the comparator is consistent and
\* the stable descending order is the only one; with a NaN revenue it is not,
\* and the order is implementation-defined (any permutation)
RevenueSortOrders(rows) ==
    IF \A i \in 1..Len(rows) : IsFinite(rows[i].revenue)
    THEN { f \in Perms(Len(rows)) :
             \A i, j \in 1..Len(rows) : i < j =>
                /\ ~RevenueAfter(rows[f[i]], rows[f[j]])
                /\ (~RevenueAfter(rows[f[j]], rows[f[i]]) => f[i] < f[j]) }
    ELSE Perms(Len(rows))

\* rows in the order the sort left them
Reordered(rows, order) == [i \in 1..Len(rows) |-> rows[order[i]]]

TableRows(sorted) == [i \in 1..Len(sorted) |-> RegionTableRow(sorted[i])]

\* RegionValues counting the plotted points as regions
RegionValuesCountingPoints(rows, sorted, totalRevenue, totalSpend, avgRoas) ==
    [aggregated |-> rows,
     bubbleMapDataRevenue |-> bubbleMapDataRevenue(rows),
     bubbleMapDataSpend |-> bubbleMapDataSpend(rows),
     totalRevenue |-> totalRevenue,
     totalSpend |-> totalSpend,
     totalClicks |-> ReduceSum(rows, "clicks", Num(0)),
     totalConversions |-> ReduceSum(rows, "conversions", Num(0)),
     totalRegions |-> Len(bubbleMapDataRevenue(rows)),
     regionalData |-> sorted,
     tableData |-> TableRows(sorted),
     avgRoasValue |-> avgRoas,
     avgRoas |-> ToFixed2(avgRoas),
     error |-> "none"]

\* the values RegionView derives from the aggregated rows
RegionValues(rows, sorted, totalRevenue, totalSpend, avgRoas) ==
    [aggregated |-> rows,
     bubbleMapDataRevenue |-> bubbleMapDataRevenue(rows),
     bubbleMapDataSpend |-> bubbleMapDataSpend(rows),
     totalRevenue |-> totalRevenue,
     totalSpend |-> totalSpend,
     totalClicks |-> ReduceSum(rows, "clicks", Num(0)),
     totalConversions |-> ReduceSum(rows, "conversions", Num(0)),
     totalRegions |-> Len(rows),
     regionalData |-> sorted,
     tableData |-> TableRows(sorted),
     avgRoasValue |-> avgRoas,
     avgRoas |-> ToFixed2(avgRoas),
     error |-> "none"]

RegionTotals(rows, sorted, totalRevenue, totalSpend) ==
    RegionValues(rows, sorted, totalRevenue, totalSpend,
                 RoasOrZero(totalRevenue, totalSpend))

RegionFrom(rows, order) ==
    RegionTotals(rows, Reordered(rows, order),
                 ReduceSum(rows, "revenue", Num(0)), ReduceSum(rows, "spend", Num(0)))

\* the values of one render of RegionView; order is the outcome of the sort
RenderRegion(d, order) == RegionFrom(regionalData(d), order)

-----------------------------------------------------------------------------
(* Device page: the summary values and the per-campaign tables. *)

\* array.find(d => d.device === name): the first such record, if any
HasDevice(records, name) == \E i \in 1..Len(records) : records[i].device = name

FindDevice(records, name) ==
    records[CHOOSE i \in 1..Len(records) :
              /\ records[i].device = name
              /\ \A j \in 1..(i - 1) : records[j].device # name]

\* deviceData.find(...) || { impressions: 0, ... }
DeviceOrZero(rows, name) ==
    IF HasDevice(rows, name) THEN FindDevice(rows, name)
    ELSE [impressions |-> Num(0), clicks |-> Num(0), conversions |-> Num(0),
          spend |-> Num(0), revenue |-> Num(0), traffic |-> Num(0)]

\* den > 0 ? (num / den) * 100 : 0
PercentOrZero(num, den) ==
    IF JsGt(den, Num(0)) THEN JsMul(JsDiv(num, den), Num(100)) ELSE Num(0)

\* RatioOrZero without the spend > 0 test
RatioUnguarded(revenue, spend) == JsDiv(revenue, spend)

\* spend > 0 ? revenue / spend : 0
RatioOrZero(revenue, spend) ==
    IF JsGt(spend, Num(0)) THEN JsDiv(revenue, spend) ELSE Num(0)

DigitChars == <<"0", "1", "2", "3", "4", "5", "6", "7", "8", "9">>

RECURSIVE DigitsOf(_)
DigitsOf(i) ==
    IF i < 10 THEN <<DigitChars[i + 1]>>
    ELSE DigitsOf(i \div 10) \o <<DigitChars[(i % 10) + 1]>>

\* the digits with a comma before every group of three
RECURSIVE Grouped(_)
Grouped(digits) ==
    IF Len(digits) <= 3 THEN digits
    ELSE Grouped(SubSeq(digits, 1, Len(digits) - 3))
         \o <<",">> \o SubSeq(digits, Len(digits) - 2, Len(digits))

\* i.toLocaleString() of a non-negative integer in the en-US locale, as characters
ToLocaleString(i) == Grouped(DigitsOf(i))

\* text.replace(/[$,]/g, '')
StripMoney(text) == SelectSeq(text, LAMBDA c : c \notin {"$", ","})

DigitValue(c) == CHOOSE i \in 0..9 : DigitChars[i + 1] = c

\* parseFloat of a text that starts with digits: the number its leading digits spell
RECURSIVE ParseDigits(_, _)
ParseDigits(text, acc) ==
    IF text = <<>> \/ Head(text) \notin {DigitChars[i] : i \in 1..10} THEN acc
    ELSE ParseDigits(Tail(text), 10 * acc + DigitValue(Head(text)))

ParseFloat(text) ==
    IF text = <<>> \/ Head(text) \notin {DigitChars[i] : i \in 1..10} THEN NaN
    ELSE Num(ParseDigits(text, 0))

\* whether building the table row of perf throws: toLocaleString or toFixed is
\* called on a field that is undefined
RowThrows(perf) ==
    \E f \in {"impressions", "clicks", "conversions", "spend", "revenue", "ctr"} :
        perf[f].t = "undefined"

DeviceTableRowOf(campaign, perf, roasValue) ==
    [campaign |-> campaign.campaign_name,
     revenue |-> <<"$">> \o ToLocaleString(perf.revenue.n),
     roasValue |-> roasValue,
     roas |-> ToFixed2(roasValue)]

\* the table row of one campaign; the columns that only print a field are left out
DeviceTableRow(campaign, perf) ==
    DeviceTableRowOf(campaign, perf, JsDiv(perf.revenue, perf.spend))

\* campaign.device_performance?.find(d => d.device === name) found a record
HasPerf(campaign, name) ==
    /\ campaign.device_performance.defined
    /\ HasDevice(campaign.device_performance.items, name)

\* the sort's comparator is > 0: a sorts after b
RevenueTextAfter(a, b) ==
    JsGt(JsSub(ParseFloat(StripMoney(b.revenue)), ParseFloat(StripMoney(a.revenue))), Num(0))

RECURSIVE InsertTableRow(_, _)
InsertTableRow(sorted, row) ==
    IF sorted = <<>> THEN <<row>>
    ELSE IF RevenueTextAfter(Head(sorted), row) THEN <<row>> \o sorted
    ELSE <<Head(sorted)>> \o InsertTableRow(Tail(sorted), row)

\* the stable sort by descending revenue
RECURSIVE SortTableRows(_)
SortTableRows(rows) ==
    IF rows = <<>> THEN <<>>
    ELSE InsertTableRow(SortTableRows(SubSeq(rows, 1, Len(rows) - 1)), rows[Len(rows)])

\* the campaigns whose device_performance has a record of the device
CampaignsWith(d, name) ==
    IF d.null \/ ~d.campaigns.defined THEN <<>>
    ELSE SelectSeq(d.campaigns.items, LAMBDA c : HasPerf(c, name))

\* whether a row of the campaigns cs throws
AnyRowThrows(cs, name) ==
    \E i \in 1..Len(cs) : RowThrows(FindDevice(cs[i].device_performance.items, name))

\* whether building the table of the device throws a TypeError
DeviceTableThrows(d, name) == AnyRowThrows(CampaignsWith(d, name), name)

RowsOfCampaigns(cs, name) ==
    [i \in 1..Len(cs) |->
        DeviceTableRow(cs[i], FindDevice(cs[i].device_performance.items, name))]

\* mobileCampaigns (name = "Mobile") and desktopCampaigns (name = "Desktop")
DeviceCampaigns(d, name) == SortTableRows(RowsOfCampaigns(CampaignsWith(d, name), name))

\* the values DeviceView derives from deviceData; a table that throws ends the render
DeviceValues(d, rows, mobileData, desktopData, mobileThrows, desktopThrows) ==
    [deviceData |-> rows,
     mobileData |-> mobileData,
     desktopData |-> desktopData,
     mobileCTR |-> PercentOrZero(mobileData.clicks, mobileData.impressions),
     desktopCTR |-> PercentOrZero(desktopData.clicks, desktopData.impressions),
     mobileConversionRate |-> PercentOrZero(mobileData.conversions, mobileData.clicks),
     desktopConversionRate |-> PercentOrZero(desktopData.conversions, desktopData.clicks),
     mobileROAS |-> RatioOrZero(mobileData.revenue, mobileData.spend),
     desktopROAS |-> RatioOrZero(desktopData.revenue, desktopData.spend),
     mobileCampaigns |-> IF mobileThrows THEN <<>> ELSE DeviceCampaigns(d, "Mobile"),
     desktopCampaigns |-> IF mobileThrows \/ desktopThrows THEN <<>>
                          ELSE DeviceCampaigns(d, "Desktop"),
     error |-> IF mobileThrows \/ desktopThrows THEN "TypeError" ELSE "none"]

DeviceFrom(d, rows) ==
    DeviceValues(d, rows, DeviceOrZero(rows, "Mobile"), DeviceOrZero(rows, "Desktop"),
                 DeviceTableThrows(d, "Mobile"), DeviceTableThrows(d, "Desktop"))

\* the values of one render of DeviceView
RenderDevice(d) == DeviceFrom(d, deviceData(d))

-----------------------------------------------------------------------------
(* Demographic page: calculateMetrics. *)

ZeroGender == [clicks |-> Num(0), spend |-> Num(0), revenue |-> Num(0)]

\* g after the three += of a gender accumulator
GenderPlus(g, clicks, spend, revenue) ==
    [clicks |-> JsAdd(g.clicks, clicks),
     spend |-> JsAdd(g.spend, spend),
     revenue |-> JsAdd(g.revenue, revenue)]

\* ageGroupData once the age group is in it
WithAgeGroup(ageGroupData, age_group) ==
    IF ~MapHas(ageGroupData, age_group)
    THEN MapSet(ageGroupData, age_group, [spend |-> Num(0), revenue |-> Num(0)])
    ELSE ageGroupData

AgePlus(age, spend, revenue) ==
    [spend |-> JsAdd(age.spend, spend), revenue |-> JsAdd(age.revenue, revenue)]

AgeAccumulate(ages, age_group, spend, revenue) ==
    MapSet(ages, age_group, AgePlus(MapGet(ages, age_group), spend, revenue))

\* the accumulators after one record with its clicks, spend and revenue shares
DemoAccumulate(acc, demo, clicks, spend, revenue) ==
    [threw |-> acc.threw,
     maleData |-> IF demo.gender = "Male"
                  THEN GenderPlus(acc.maleData, clicks, spend, revenue)
                  ELSE acc.maleData,
     femaleData |-> IF demo.gender = "Female"
                    THEN GenderPlus(acc.femaleData, clicks, spend, revenue)
                    ELSE acc.femaleData,
     ageGroupData |-> AgeAccumulate(WithAgeGroup(acc.ageGroupData, demo.age_group),
                                    demo.age_group, spend, revenue)]

\* DemoShare adding the campaign totals whole
DemoShareUnsplit(acc, campaign, demo, ratio) ==
    DemoAccumulate(acc, demo, demo.performance.clicks, campaign.spend, campaign.revenue)

\* the record's share of the campaign totals, ratio = percentage_of_audience / 100
DemoShare(acc, campaign, demo, ratio) ==
    DemoAccumulate(acc, demo, demo.performance.clicks,
                   JsMul(campaign.spend, ratio), JsMul(campaign.revenue, ratio))

\* the body of the inner forEach: one demographic record of campaign added
AddDemo(acc, campaign, demo) ==
    DemoShare(acc, campaign, demo, JsDiv(demo.percentage_of_audience, Num(100)))

RECURSIVE DemoRecordsForEach(_, _, _)
DemoRecordsForEach(acc, campaign, records) ==
    IF records = <<>> THEN acc
    ELSE DemoRecordsForEach(AddDemo(acc, campaign, Head(records)), campaign, Tail(records))

\* the body of the outer forEach: forEach is called on demographic_breakdown
\* unguarded, which throws a TypeError when the list is undefined
AddDemoCampaign(acc, campaign) ==
    IF ~campaign.demographic_breakdown.defined
    THEN [acc EXCEPT !.threw = TRUE]
    ELSE DemoRecordsForEach(acc, campaign, campaign.demographic_breakdown.items)

\* a throw ends the loop
RECURSIVE DemoCampaignsForEach(_, _)
DemoCampaignsForEach(acc, campaigns) ==
    IF campaigns = <<>> \/ acc.threw THEN acc
    ELSE DemoCampaignsForEach(AddDemoCampaign(acc, Head(campaigns)), Tail(campaigns))

\* what calculateMetrics returns from the accumulators, unless the loop threw
MetricsOf(acc) ==
    [threw |-> acc.threw, null |-> FALSE,
     maleData |-> IF acc.threw THEN ZeroGender ELSE acc.maleData,
     femaleData |-> IF acc.threw THEN ZeroGender ELSE acc.femaleData,
     ageGroupData |-> IF acc.threw THEN <<>> ELSE acc.ageGroupData]

\* the outcome of calculateMetrics: it threw, returned null, or returned the
\* three accumulators
calculateMetrics(d) ==
    IF d.null \/ ~d.campaigns.defined
    THEN [threw |-> FALSE, null |-> TRUE, maleData |-> ZeroGender,
          femaleData |-> ZeroGender, ageGroupData |-> <<>>]
    ELSE MetricsOf(DemoCampaignsForEach(
                       [threw |-> FALSE, maleData |-> ZeroGender,
                        femaleData |-> ZeroGender, ageGroupData |-> <<>>],
                       d.campaigns.items))

\* data?.campaigns.flatMap(...) throws when data is an object without campaigns
TableDataThrows(d) == ~d.null /\ ~d.campaigns.defined

DemographicValues(d, metrics) ==
    [metrics |-> metrics,
     error |-> IF metrics.threw \/ TableDataThrows(d) THEN "TypeError" ELSE "none"]

\* the values of one render of DemographicView
RenderDemographic(d) == DemographicValues(d, calculateMetrics(d))

-----------------------------------------------------------------------------
(* The chart components. *)

NoProps == [data |-> <<>>, height |-> 0]
NotRendered == [rendered |-> FALSE]

NumMax(h, r) == IF h.t = "NaN" \/ r.t = "NaN" THEN NaN ELSE IF NumGt(h, r) THEN h ELSE r

NumMin(h, r) == IF h.t = "NaN" \/ r.t = "NaN" THEN NaN ELSE IF NumGt(r, h) THEN h ELSE r

\* Math.max(...values): -Infinity of no values, NaN as soon as one is NaN
RECURSIVE MathMax(_)
MathMax(values) ==
    IF values = <<>> THEN NegInfinity
    ELSE NumMax(ToNumber(Head(values)), MathMax(Tail(values)))

\* Math.min(...values)
RECURSIVE MathMin(_)
MathMin(values) ==
    IF values = <<>> THEN Infinity
    ELSE NumMin(ToNumber(Head(values)), MathMin(Tail(values)))

ValuesOf(points) == [i \in 1..Len(points) |-> points[i].value]

(* LineChart *)

chartWidth == 100

\* height - 80
ChartHeight(height) == JsSub(Num(height), Num(80))

\* ValueRange without the || 1
ValueRangeUnguarded(maxValue, minValue) == JsSub(maxValue, minValue)

\* maxValue - minValue || 1
ValueRange(maxValue, minValue) == JsOr(JsSub(maxValue, minValue), Num(1))

\* PointX dividing by data.length
PointXOverLength(index, length) == JsMul(JsDiv(Num(index), Num(length)), Num(chartWidth))

\* (index / (data.length - 1)) * chartWidth, index counted from 0
PointX(index, length) == JsMul(JsDiv(Num(index), Num(length - 1)), Num(chartWidth))

\* PointY without the inversion
PointYUpright(value, minValue, valueRange, chartHeight) ==
    JsMul(JsDiv(JsSub(value, minValue), valueRange), chartHeight)

\* chartHeight - ((item.value - minValue) / valueRange) * chartHeight
PointY(value, minValue, valueRange, chartHeight) ==
    JsSub(chartHeight, JsMul(JsDiv(JsSub(value, minValue), valueRange), chartHeight))

\* the points of the line
LinePoints(items, minValue, valueRange, chartHeight) ==
    [i \in 1..Len(items) |->
        [x |-> PointX(i - 1, Len(items)),
         y |-> PointY(items[i].value, minValue, valueRange, chartHeight),
         label |-> items[i].label,
         value |-> items[i].value]]

\* PathD moving to every point
PathDMoveEach(points) ==
    [i \in 1..Len(points) |-> [command |-> "M", args |-> <<points[i].x, points[i].y>>]]

\* the path text, one record for each command: its letter and its numbers
PathD(points) ==
    [i \in 1..Len(points) |->
        [command |-> IF i = 1 THEN "M" ELSE "L", args |-> <<points[i].x, points[i].y>>]]

\* `${pathD} L ${chartWidth} ${chartHeight} L 0 ${chartHeight} Z`
AreaPathD(points, height) ==
    PathD(points)
    \o << [command |-> "L", args |-> <<Num(chartWidth), ChartHeight(height)>>],
          [command |-> "L", args |-> <<Num(0), ChartHeight(height)>>],
          [command |-> "Z", args |-> <<>>] >>

LineGeometry(points, height) ==
    [rendered |-> TRUE, noData |-> FALSE,
     points |-> points,
     pathD |-> PathD(points),
     areaPathD |-> AreaPathD(points, height)]

LineFrom(items, height, maxValue, minValue) ==
    LineGeometry(LinePoints(items, minValue, ValueRange(maxValue, minValue),
                            ChartHeight(height)),
                 height)

\* what one render of LineChart with the props p draws
LineChart(p) ==
    IF Len(p.data) = 0
    THEN [rendered |-> TRUE, noData |-> TRUE, points |-> <<>>, pathD |-> <<>>,
          areaPathD |-> <<>>]
    ELSE LineFrom(p.data, p.height, MathMax(ValuesOf(p.data)), MathMin(ValuesOf(p.data)))

(* BubbleMap *)

viewBoxWidth == 1000

\* getBubbleSize normalising against maxValue alone
getBubbleSizeFromZero(value, minValue, maxValue) ==
    IF JsStrictEq(maxValue, minValue) THEN Num(35)
    ELSE JsAdd(Num(10), JsMul(JsDiv(value, maxValue), Num(50)))

\* getBubbleSize, with the maxValue and minValue of the render
getBubbleSize(value, minValue, maxValue) ==
    IF JsStrictEq(maxValue, minValue) THEN Num(35)
    ELSE JsAdd(Num(10),
               JsMul(JsDiv(JsSub(value, minValue), JsSub(maxValue, minValue)), Num(50)))

\* convertCoordinates with the latitude not inverted
convertCoordinatesSouthUp(x, y, height) ==
    [svgX |-> JsMul(JsDiv(JsAdd(x, Num(180)), Num(360)), Num(viewBoxWidth)),
     svgY |-> JsMul(JsDiv(JsAdd(y, Num(90)), Num(180)), Num(height))]

\* convertCoordinates, with viewBoxHeight = height
convertCoordinates(x, y, height) ==
    [svgX |-> JsMul(JsDiv(JsAdd(x, Num(180)), Num(360)), Num(viewBoxWidth)),
     svgY |-> JsMul(JsDiv(JsSub(Num(90), y), Num(180)), Num(height))]

Bubble(point, svg, radius) ==
    [city |-> point.city, value |-> point.value,
     svgX |-> svg.svgX, svgY |-> svg.svgY, radius |-> radius]

\* the circles drawn by data.map, in the order of the array
Bubbles(points, height, minValue, maxValue) ==
    [i \in 1..Len(points) |->
        Bubble(points[i], convertCoordinates(points[i].x, points[i].y, height),
               getBubbleSize(points[i].value, minValue, maxValue))]

\* (a, b) => b.value - a.value is > 0: a sorts after b
ValueAfter(a, b) == JsGt(JsSub(b.value, a.value), Num(0))

RECURSIVE InsertPoint(_, _)
InsertPoint(sorted, point) ==
    IF sorted = <<>> THEN <<point>>
    ELSE IF ValueAfter(Head(sorted), point) THEN <<point>> \o sorted
    ELSE <<Head(sorted)>> \o InsertPoint(Tail(sorted), point)

\* data.sort((a, b) => b.value - a.value) on finite values: stable, descending;
\* the sort works in place, on the array the caller handed over
RECURSIVE SortPoints(_)
SortPoints(points) ==
    IF points = <<>> THEN <<>>
    ELSE InsertPoint(SortPoints(SubSeq(points, 1, Len(points) - 1)), points[Len(points)])

CityNames(points) == [i \in 1..Len(points) |-> points[i].city]

\* what one render of BubbleMap with the props p draws
BubbleMap(p) ==
    IF Len(p.data) = 0
    THEN [rendered |-> TRUE, noData |-> TRUE, bubbles |-> <<>>, cityList |-> <<>>]
    ELSE [rendered |-> TRUE, noData |-> FALSE,
          bubbles |-> Bubbles(p.data, p.height, MathMin(ValuesOf(p.data)),
                              MathMax(ValuesOf(p.data))),
          cityList |-> CityNames(SortPoints(p.data))]

\* the caller's array after the render
DataAfterBubbleMap(p) == IF Len(p.data) = 0 THEN p.data ELSE SortPoints(p.data)

-----------------------------------------------------------------------------
(* The pages: one component is mounted, fetches the snapshot once and renders
   from its state. *)

\* the outcomes of the table sort of a render of page p from d
SortOrders(p, d) ==
    IF p = "region" THEN RevenueSortOrders(regionalData(d)) ELSE {<<>>}

\* the values the component of page p computes in one render from d
Render(p, d, order) ==
    CASE p = "device" -> RenderDevice(d)
      [] p = "weekly" -> RenderWeekly(d)
      [] p = "region" -> RenderRegion(d, order)
      [] p = "demographic" -> RenderDemographic(d)

\* useState(null), useState(true), the first render, and the effect has
\* called fetchData, which waits for fetch()
Init ==
    /\ page \in Pages
    /\ fetchPc = "fetch"
    /\ data = Null
    /\ loading = TRUE
    /\ view = Render(page, Null, <<>>)
    /\ props = NoProps
    /\ geometry = NotRendered

\* await fetch(...) resolves; fetchData now waits for response.json()
FetchResolves ==
    /\ fetchPc = "fetch"
    /\ fetchPc' = "json"
    /\ UNCHANGED <<page, data, loading, view>>
    /\ UNCHANGED chartVars

\* await fetch(...) rejects: catch logs, finally setLoading(false), re-render
FetchRejects ==
    /\ fetchPc = "fetch"
    /\ fetchPc' = "failed"
    /\ loading' = FALSE
    /\ \E order \in SortOrders(page, data) : view' = Render(page, data, order)
    /\ UNCHANGED <<page, data>>
    /\ UNCHANGED chartVars

\* setData(result) and the render that follows
Loaded(result) ==
    /\ data' = result
    /\ \E order \in SortOrders(page, result) : view' = Render(page, result, order)

\* await response.json() resolves with result: setData(result), then finally
\* setLoading(false), and the component renders again
JsonResolves ==
    /\ fetchPc = "json"
    /\ \/ Loaded(NoCampaigns)
       \/ \E recs \in BSeq(Pool(page), MaxRecords) :
            \E sh \in ShapeTable[Len(recs)] :
              \E tot \in TotalsChoices(page, Len(sh)) :
                Loaded(Snapshot(page, recs, sh, tot))
    /\ fetchPc' = "loaded"
    /\ loading' = FALSE
    /\ UNCHANGED page
    /\ UNCHANGED chartVars

\* await response.json() rejects: catch logs, finally setLoading(false), re-render
JsonRejects ==
    /\ fetchPc = "json"
    /\ fetchPc' = "failed"
    /\ loading' = FALSE
    /\ \E order \in SortOrders(page, data) : view' = Render(page, data, order)
    /\ UNCHANGED <<page, data>>
    /\ UNCHANGED chartVars

Next ==
    \/ FetchResolves
    \/ FetchRejects
    \/ JsonResolves
    \/ JsonRejects

Spec == Init /\ [][Next]_vars

-----------------------------------------------------------------------------
(* The renders that follow a fetch, one for each state update: setData(result)
   makes the component render with the snapshot, and setLoading(false) in the
   finally block makes it render again with the same snapshot.  Every render
   runs the aggregation of the page before it looks at loading. *)

\* DataAfterRender with an aggregation that takes the campaigns off the list
DataAfterRenderConsumed(p, d) ==
    IF d.null \/ ~d.campaigns.defined THEN d
    ELSE [null |-> FALSE, campaigns |-> List(<<>>)]

\* the snapshot after a render of page p: the aggregation and the tables read
\* the campaigns and their records and assign to none of them
DataAfterRender(p, d) == d

\* setData(result) was called and the render it asks for is due
InitRender ==
    /\ page \in Pages
    /\ fetchPc = "setData"
    /\ \/ data = NoCampaigns
       \/ \E recs \in BSeq(Pool(page), MaxRenderRecords) :
            \E sh \in ShapeTable[Len(recs)] :
              \E tot \in TotalsChoices(page, Len(sh)) :
                data = Snapshot(page, recs, sh, tot)
    /\ loading = TRUE
    /\ view = Render(page, Null, <<>>)
    /\ props = NoProps
    /\ geometry = NotRendered

\* the render after setData(result); setLoading(false) is still to come
SetDataRenders ==
    /\ fetchPc = "setData"
    /\ fetchPc' = "finally"
    /\ \E order \in SortOrders(page, data) : view' = Render(page, data, order)
    /\ data' = DataAfterRender(page, data)
    /\ UNCHANGED <<page, loading>>
    /\ UNCHANGED chartVars

\* finally setLoading(false), and the render after it
SetLoadingRenders ==
    /\ fetchPc = "finally"
    /\ fetchPc' = "loaded"
    /\ loading' = FALSE
    /\ \E order \in SortOrders(page, data) : view' = Render(page, data, order)
    /\ data' = DataAfterRender(page, data)
    /\ UNCHANGED page
    /\ UNCHANGED chartVars

NextRender ==
    \/ SetDataRenders
    \/ SetLoadingRenders

SpecRender == InitRender /\ [][NextRender]_vars

-----------------------------------------------------------------------------
(* The fetch of a page step by step: fetch(), response.json(), setData, the
   render it asks for, and setLoading(false) with its render. The snapshots
   hold at most MaxRenderRecords records. A pending promise settles and a
   scheduled render runs, so fetchData does not stay in a pending step. *)

\* setData without its effect: data keeps its value
SetDataKeepsNull(result) == data' = data

\* setData(result)
SetData(result) == data' = result

\* await response.json() resolves with result and setData(result) is called;
\* the render it asks for is due
JsonSetsData ==
    /\ fetchPc = "json"
    /\ \/ SetData(NoCampaigns)
       \/ \E recs \in BSeq(Pool(page), MaxRenderRecords) :
            \E sh \in ShapeTable[Len(recs)] :
              \E tot \in TotalsChoices(page, Len(sh)) :
                SetData(Snapshot(page, recs, sh, tot))
    /\ fetchPc' = "setData"
    /\ UNCHANGED <<page, loading, view>>
    /\ UNCHANGED chartVars

NextFetch ==
    \/ FetchResolves
    \/ FetchRejects
    \/ JsonSetsData
    \/ JsonRejects
    \/ SetDataRenders
    \/ SetLoadingRenders

\* where fetchData or a render it asked for is still to run, and where it ends
PendingSteps == {"fetch", "json", "setData", "finally"}
FinalSteps == {"loaded", "failed"}

\* fetchData moves on: in every pending step one of the actions of NextFetch
\* can be taken, and each of them changes fetchPc
FetchAdvances ==
    /\ fetchPc \in PendingSteps
    /\ fetchPc' \in PendingSteps \cup FinalSteps
    /\ fetchPc' # fetchPc

SpecFetch == Init /\ [][NextFetch]_vars /\ WF_fetchPc(FetchAdvances)

-----------------------------------------------------------------------------
(* LineChart on its own: any series of at most MaxPoints points. *)

LineHeights == {300, 350}

LineItems == [label : {"A", "B"}, value : {Num(v) : v \in -1..MaxValue}]

InitLine ==
    /\ page = "none"
    /\ fetchPc = "none"
    /\ data = Null
    /\ loading = FALSE
    /\ view = [error |-> "none"]
    /\ props \in [data : BSeq(LineItems, MaxPoints), height : LineHeights]
    /\ geometry = NotRendered

RenderLineChart ==
    /\ geometry' = LineChart(props)
    /\ UNCHANGED props
    /\ UNCHANGED pageVars

NextLine == RenderLineChart

SpecLine == InitLine /\ [][NextLine]_vars

-----------------------------------------------------------------------------
(* BubbleMap on its own: any array of at most MaxPoints points. *)

BubbleHeights == {500}

\* the corners of the coordinate range: longitude -180 with latitude 90, and
\* longitude 180 with latitude -90
CornerItems ==
    { [city |-> "North-West", country |-> "none", value |-> Num(0),
       x |-> Num(-180), y |-> Num(90)],
      [city |-> "South-East", country |-> "none", value |-> Num(0),
       x |-> Num(180), y |-> Num(-90)] }

\* points at the first two cities of the reference table, and the two corners
BubbleItems ==
    { [city |-> cityCoordinates[c].city, country |-> cityCoordinates[c].country,
       value |-> Num(v), x |-> cityCoordinates[c].x, y |-> cityCoordinates[c].y] :
      c \in 1..2, v \in 0..MaxValue }
    \cup CornerItems

InitBubble ==
    /\ page = "none"
    /\ fetchPc = "none"
    /\ data = Null
    /\ loading = FALSE
    /\ view = [error |-> "none"]
    /\ props \in [data : BSeq(BubbleItems, MaxPoints), height : BubbleHeights]
    /\ geometry = NotRendered

\* one render: the bubbles are drawn from the array as it is, then the city
\* list sorts the array in place
RenderBubbleMap ==
    /\ geometry' = BubbleMap(props)
    /\ props' = [props EXCEPT !.data = DataAfterBubbleMap(props)]
    /\ UNCHANGED pageVars

NextBubble == RenderBubbleMap

SpecBubble == InitBubble /\ [][NextBubble]_vars

-----------------------------------------------------------------------------
(* What the claims are stated with: the records of a snapshot, read directly
   from the data and not through the aggregation. *)

\* the breakdown list a page reads, and the field that is its records' key
ListOf(p) ==
    CASE p = "device" -> "device_performance"
      [] p = "weekly" -> "weekly_performance"
      [] p = "region" -> "regional_performance"
      [] p = "demographic" -> "demographic_breakdown"

KeyOf(p) ==
    CASE p = "device" -> "device"
      [] p = "weekly" -> "week_start"
      [] p = "region" -> "region"

\* the field of an output row that holds its key
RowKeyOf(p) ==
    CASE p = "device" -> "device"
      [] p = "weekly" -> "weekStart"
      [] p = "region" -> "region"

\* the rows the aggregation of the page returned in the last render
AggregatedRows ==
    CASE page = "device" -> view.deviceData
      [] page = "weekly" -> view.weeklyData
      [] page = "region" -> view.aggregated

AggregationPages == {"device", "weekly", "region"}

SummedFields == {"impressions", "clicks", "conversions", "spend", "revenue"}

RECURSIVE FlatRecords(_, _)
FlatRecords(campaigns, list) ==
    IF campaigns = <<>> THEN <<>>
    ELSE Head(campaigns)[list].items \o FlatRecords(Tail(campaigns), list)

\* every record of the snapshot, campaign after campaign
AllRecords ==
    IF data.null \/ ~data.campaigns.defined THEN <<>>
    ELSE FlatRecords(data.campaigns.items, ListOf(page))

\* the sum, as an integer, of a field over the records with the key; a field
\* that is undefined counts 0
RECURSIVE FieldSum(_, _, _, _)
FieldSum(records, keyField, key, field) ==
    IF records = <<>> THEN 0
    ELSE (IF Head(records)[keyField] = key /\ Head(records)[field].t = "number"
          THEN Head(records)[field].n ELSE 0)
         + FieldSum(Tail(records), keyField, key, field)

\* the sum of a field over all the records
RECURSIVE TotalSum(_, _)
TotalSum(records, field) ==
    IF records = <<>> THEN 0
    ELSE (IF Head(records)[field].t = "number" THEN Head(records)[field].n ELSE 0)
         + TotalSum(Tail(records), field)

\* the field of every element of a sequence of records or rows
FieldOfEach(s, field) == [i \in 1..Len(s) |-> s[i][field]]

\* the keys of the records, and of the rows of the last render, in order
RecordKeys == FieldOfEach(AllRecords, KeyOf(page))
RowKeys == FieldOfEach(AggregatedRows, RowKeyOf(page))

\* the elements of a sequence, and whether they are pairwise different
Elements(s) == {s[i] : i \in 1..Len(s)}
NoDuplicates(s) == \A i, j \in 1..Len(s) : s[i] = s[j] => i = j

\* every summed field of every record of records is a number
AllNumbers(records) ==
    \A i \in 1..Len(records) : \A f \in SummedFields : records[i][f].t = "number"

\* every summed field of every record is a number
WellFormed == AllNumbers(AllRecords)

\* the five numeric fields of the row are the sums over the records with its key
RowIsSum(row, records, keyField, key) ==
    \A f \in SummedFields : row[f] = Num(FieldSum(records, keyField, key, f))

\* each row of rows holds the sums over the records with its key
RowsAreSums(rows, records, keyField, rowKey) ==
    \A i \in 1..Len(rows) : RowIsSum(rows[i], records, keyField, rows[i][rowKey])

\* the four totals of the view are the sums over all the records
TotalsAreSums(totals, records) ==
    /\ totals.totalRevenue = Num(TotalSum(records, "revenue"))
    /\ totals.totalSpend = Num(TotalSum(records, "spend"))
    /\ totals.totalClicks = Num(TotalSum(records, "clicks"))
    /\ totals.totalConversions = Num(TotalSum(records, "conversions"))

-----------------------------------------------------------------------------
(* Claims. *)

\* C1: in the device, weekly and regional aggregation the keys of the output
\* rows are exactly the distinct device / week_start / region values of the
\* campaigns' records, and no two rows have the same key.
C1_KeysComplete ==
    page \in AggregationPages =>
        /\ Elements(RowKeys) = Elements(RecordKeys)
        /\ NoDuplicates(RowKeys)

\* C1's case: three records with two distinct keys were aggregated into two rows
C1_Witness ==
    /\ page = "region"
    /\ fetchPc = "loaded"
    /\ Len(AllRecords) = 3
    /\ Len(AggregatedRows) = 2

\* C2: with well-formed numeric fields, each output row's impressions, clicks,
\* conversions, spend and revenue are the sums of the field over the records
\* with the row's key, and the view totals are the sums over all records.
C2_SumsExact ==
    (page \in AggregationPages /\ WellFormed) =>
        /\ RowsAreSums(AggregatedRows, AllRecords, KeyOf(page), RowKeyOf(page))
        /\ page \in {"weekly", "region"} => TotalsAreSums(view, AllRecords)

\* C2's case: two campaigns hold a record of the same key, which one row
\* sums, beside a row of another key
C2_Witness ==
    /\ page = "weekly"
    /\ fetchPc = "loaded"
    /\ WellFormed
    /\ Len(data.campaigns.items) = 2
    /\ \E r1 \in 1..Len(data.campaigns.items[1].weekly_performance.items) :
         \E r2 \in 1..Len(data.campaigns.items[2].weekly_performance.items) :
            /\ data.campaigns.items[1].weekly_performance.items[r1].week_start
                 = data.campaigns.items[2].weekly_performance.items[r2].week_start
            /\ data.campaigns.items[1].weekly_performance.items[r1].revenue
                 # data.campaigns.items[2].weekly_performance.items[r2].revenue
    /\ Len(AllRecords) = 3
    /\ Len(AggregatedRows) = 2
    /\ view.totalRevenue = Num(7)

\* the campaigns of the snapshot
Campaigns == IF data.null \/ ~data.campaigns.defined THEN <<>> ELSE data.campaigns.items

\* the ROAS cell of a row built from spend = 0 and revenue > 0 is 0
ZeroSpendCellIsZero(spend, revenue, cell) ==
    (spend = Num(0) /\ JsGt(revenue, Num(0))) => cell = Num(0)

\* the same for the table row of each campaign that has a record of the device
ZeroSpendDeviceTable(name, table) ==
    \A c \in 1..Len(Campaigns) :
        HasPerf(Campaigns[c], name) =>
            \E i \in 1..Len(table) :
                /\ table[i].campaign = Campaigns[c].campaign_name
                /\ ZeroSpendCellIsZero(
                       FindDevice(Campaigns[c].device_performance.items, name).spend,
                       FindDevice(Campaigns[c].device_performance.items, name).revenue,
                       table[i].roasValue)

\* C3: every derived ROAS computed from a row with spend = 0 and revenue > 0
\* (the region table's ROAS, the region view's Avg ROAS, the Mobile and Desktop
\* tables' ROAS of the device view) is 0 before it is formatted, never Infinity
\* or NaN.
C3_ZeroSpendRoasIsZero ==
    /\ page = "region" =>
         /\ \A i \in 1..Len(view.tableData) :
              ZeroSpendCellIsZero(view.regionalData[i].spend, view.regionalData[i].revenue,
                                  view.tableData[i].roasValue)
         /\ ZeroSpendCellIsZero(view.totalSpend, view.totalRevenue, view.avgRoasValue)
    /\ (page = "device" /\ view.error = "none") =>
         /\ ZeroSpendDeviceTable("Mobile", view.mobileCampaigns)
         /\ ZeroSpendDeviceTable("Desktop", view.desktopCampaigns)

\* C5: a record with a missing numeric field contributes 0 to that field's
\* sum: every output total is a finite number, the sum of the fields that are
\* present.
C5_MissingFieldCountsZero ==
    page \in AggregationPages =>
        \A i \in 1..Len(AggregatedRows) : \A f \in SummedFields :
            AggregatedRows[i][f]
              = Num(FieldSum(AllRecords, KeyOf(page), AggregatedRows[i][RowKeyOf(page)], f))

\* the clicks of the records of a gender, over the campaigns that have a list
RECURSIVE GenderClicks(_, _)
GenderClicks(records, gender) ==
    IF records = <<>> THEN 0
    ELSE (IF Head(records).gender = gender THEN Head(records).performance.clicks.n ELSE 0)
         + GenderClicks(Tail(records), gender)

\* C6: calculateMetrics never throws: a campaign without demographic_breakdown
\* contributes nothing and the other campaigns are still aggregated.
C6_DemographicNeverThrows ==
    page = "demographic" =>
        /\ ~view.metrics.threw
        /\ ~view.metrics.null =>
             /\ view.metrics.maleData.clicks = Num(GenderClicks(AllRecords, "Male"))
             /\ view.metrics.femaleData.clicks = Num(GenderClicks(AllRecords, "Female"))

\* the rows of the aggregation without the campaigns whose list is absent or empty
HasRecords(campaign) == Len(campaign[ListOf(page)].items) # 0

DataWithoutEmpty ==
    [null |-> FALSE, campaigns |-> List(SelectSeq(Campaigns, HasRecords))]

RowsOf(p, d) ==
    CASE p = "device" -> deviceData(d)
      [] p = "weekly" -> weeklyData(d)
      [] p = "region" -> regionalData(d)

\* C7: in the device, weekly and regional aggregation a campaign whose list is
\* absent or empty contributes no rows and leaves the rows of the other
\* campaigns as they are (the rows are those of the snapshot without these
\* campaigns); an empty or absent campaign list gives no rows; and neither
\* raises an error.
C7_AbsentListSkipped ==
    page \in AggregationPages =>
        /\ AggregatedRows = RowsOf(page, DataWithoutEmpty)
        /\ Len(AllRecords) = 0 => AggregatedRows = <<>>
        /\ (WellFormed \/ page # "device") => view.error = "none"

\* C7's case: a campaign without the list stands beside one that has records
C7_Witness ==
    /\ page = "device"
    /\ fetchPc = "loaded"
    /\ Len(Campaigns) = 2
    /\ \E a, b \in 1..2 :
         /\ ~Campaigns[a].device_performance.defined
         /\ Len(Campaigns[b].device_performance.items) = 2
    /\ Len(view.deviceData) = 2

\* C8: every aggregated region, also one that is no key of cityCoordinates, is
\* a point of bubbleMapDataRevenue and of bubbleMapDataSpend.
C8_AggregatedRegionsPlotted ==
    page = "region" =>
        \A i \in 1..Len(view.aggregated) :
            /\ \E j \in 1..Len(view.bubbleMapDataRevenue) :
                 view.bubbleMapDataRevenue[j].city = view.aggregated[i].region
            /\ \E j \in 1..Len(view.bubbleMapDataSpend) :
                 view.bubbleMapDataSpend[j].city = view.aggregated[i].region

\* the point of a reference city that has no aggregated row
SentinelPoint(c) ==
    [city |-> c.city, country |-> c.country, value |-> Num(1000),
     secondaryValue |-> Num(0), x |-> c.x, y |-> c.y]

\* the point set holds the city once, as its sentinel point
PlottedOnceAsSentinel(points, c) ==
    /\ Cardinality({j \in 1..Len(points) : points[j].city = c.city}) = 1
    /\ \E j \in 1..Len(points) : points[j] = SentinelPoint(c)

\* C9: every city of cityCoordinates without a matching aggregated row is in
\* both bubble point sets exactly once, with value 1000, secondaryValue 0 and
\* the table's coordinates and country, for every campaign list and for none.
C9_ReferenceCitiesPlotted ==
    page = "region" =>
        \A c \in 1..Len(cityCoordinates) :
            (\A i \in 1..Len(view.aggregated) :
                view.aggregated[i].region # cityCoordinates[c].city) =>
                /\ PlottedOnceAsSentinel(view.bubbleMapDataRevenue, cityCoordinates[c])
                /\ PlottedOnceAsSentinel(view.bubbleMapDataSpend, cityCoordinates[c])

\* C9's case: one reference city has a row with data, the other cities have none
C9_Witness ==
    /\ page = "region"
    /\ fetchPc = "loaded"
    /\ \E i \in 1..Len(view.aggregated) :
         /\ view.aggregated[i].region = "Dubai"
         /\ view.aggregated[i].revenue = Num(7)
    /\ \E j \in 1..Len(view.bubbleMapDataRevenue) :
         /\ view.bubbleMapDataRevenue[j].city = "Dubai"
         /\ view.bubbleMapDataRevenue[j].value = Num(7)
    /\ \E j \in 1..Len(view.bubbleMapDataRevenue) :
         /\ view.bubbleMapDataRevenue[j].city = "Cairo"
         /\ view.bubbleMapDataRevenue[j].value = Num(1000)

\* no number of the path text is NaN
NoNaN(path) ==
    \A i \in 1..Len(path) : \A k \in 1..Len(path[i].args) : path[i].args[k].t # "NaN"

\* C4: a line chart given a series of exactly one point puts the point at
\* x = 0, and pathD holds no NaN.
C4_SinglePointAtZero ==
    (geometry.rendered /\ Len(props.data) = 1) =>
        /\ geometry.points[1].x = Num(0)
        /\ NoNaN(geometry.pathD)

\* a <= b on finite numbers
Leq(a, b) == a.n * b.d <= b.n * a.d

\* the values of the bubbles are all the same
AllValuesEqual(bubbles) ==
    \A i, j \in 1..Len(bubbles) : bubbles[i].value = bubbles[j].value

\* C10: for a non-empty point set every radius of getBubbleSize lies in
\* [10, 60]; a point with the least value has radius 10 and one with the
\* greatest value has radius 60, unless all values are equal, and then every
\* radius is 35.
C10_RadiusBounds ==
    (geometry.rendered /\ ~geometry.noData) =>
        \A i \in 1..Len(geometry.bubbles) :
            /\ IsFinite(geometry.bubbles[i].radius)
            /\ Leq(Num(10), geometry.bubbles[i].radius)
            /\ Leq(geometry.bubbles[i].radius, Num(60))
            /\ AllValuesEqual(geometry.bubbles) => geometry.bubbles[i].radius = Num(35)
            /\ (/\ ~AllValuesEqual(geometry.bubbles)
                /\ \A j \in 1..Len(geometry.bubbles) :
                     Leq(geometry.bubbles[i].value, geometry.bubbles[j].value))
                 => geometry.bubbles[i].radius = Num(10)
            /\ (/\ ~AllValuesEqual(geometry.bubbles)
                /\ \A j \in 1..Len(geometry.bubbles) :
                     Leq(geometry.bubbles[j].value, geometry.bubbles[i].value))
                 => geometry.bubbles[i].radius = Num(60)

\* C10's case: three bubbles were drawn, the least with radius 10, the greatest
\* with radius 60 and one strictly between the two
C10_Witness ==
    /\ geometry.rendered
    /\ ~geometry.noData
    /\ Len(geometry.bubbles) = 3
    /\ \E i, j, k \in 1..3 :
         /\ geometry.bubbles[i].radius = Num(10)
         /\ geometry.bubbles[j].radius = Num(60)
         /\ geometry.bubbles[k].radius \notin {Num(10), Num(60)}
         /\ geometry.bubbles[i].value # Num(0)


\* the week_start of every record, and the weekStart of every row, in order
WeekStartsOf(records) == [i \in 1..Len(records) |-> records[i].week_start]
RowWeekStarts(rows) == [i \in 1..Len(rows) |-> rows[i].weekStart]

\* C11: the weekly aggregation returns its rows in ascending order of
\* week_start whatever the order in which the weeks are met: of two adjacent
\* rows the first one's week-start date is before the second one's.
C11_WeeksAscending ==
    page = "weekly" =>
        \A i \in 1..(Len(view.weeklyData) - 1) :
            JsGt(DateGetTime(view.weeklyData[i + 1].weekStart),
                 DateGetTime(view.weeklyData[i].weekStart))

\* C11's case: the weeks met in the order 01-15, 01-01, 01-08 come out as
\* 01-01, 01-08, 01-15
C11_Witness ==
    /\ page = "weekly"
    /\ fetchPc = "loaded"
    /\ WeekStartsOf(AllRecords) = <<"2024-01-15", "2024-01-01", "2024-01-08">>
    /\ RowWeekStarts(view.weeklyData) = <<"2024-01-01", "2024-01-08", "2024-01-15">>

\* the row's passthrough field is the one of the first record with its key
FromFirstRecord(row, rowField, field) ==
    \E j \in 1..Len(AllRecords) :
        /\ AllRecords[j][KeyOf(page)] = row[RowKeyOf(page)]
        /\ \A k \in 1..(j - 1) : AllRecords[k][KeyOf(page)] # row[RowKeyOf(page)]
        /\ row[rowField] = AllRecords[j][field]

\* the row's numeric fields are the sums over every record with its key
SumsEveryRecord(row) == RowIsSum(row, AllRecords, KeyOf(page), row[RowKeyOf(page)])

\* C12: a regional row's country and a weekly row's weekEnd are those of the
\* first record met with the row's key (campaign order, then record order); a
\* later record with the key does not change them, and its numeric fields are
\* summed all the same.
C12_FirstWriteWins ==
    /\ page = "region" =>
         \A i \in 1..Len(view.aggregated) :
             /\ FromFirstRecord(view.aggregated[i], "country", "country")
             /\ WellFormed => SumsEveryRecord(view.aggregated[i])
    /\ page = "weekly" =>
         \A i \in 1..Len(view.weeklyData) :
             /\ FromFirstRecord(view.weeklyData[i], "weekEnd", "week_end")
             /\ WellFormed => SumsEveryRecord(view.weeklyData[i])

\* C12's case: a second Dubai record names another country; the row keeps the
\* first one's country and holds the revenue of both
C12_Witness ==
    /\ page = "region"
    /\ fetchPc = "loaded"
    /\ Len(AllRecords) = 2
    /\ AllRecords[1].region = "Dubai" /\ AllRecords[1].country = "UAE"
    /\ AllRecords[2].region = "Dubai" /\ AllRecords[2].country = "Oman"
    /\ Len(view.aggregated) = 1
    /\ view.aggregated[1].country = "UAE"
    /\ view.aggregated[1].revenue = Num(7)

\* the contributions of the records of one campaign: the campaign's spend and
\* revenue times percentage_of_audience / 100
CampaignShares(campaign, records) ==
    [i \in 1..Len(records) |->
        [demo |-> records[i],
         spend |-> JsMul(campaign.spend, JsDiv(records[i].percentage_of_audience, Num(100))),
         revenue |-> JsMul(campaign.revenue, JsDiv(records[i].percentage_of_audience, Num(100)))]]

RECURSIVE AllShares(_)
AllShares(campaigns) ==
    IF campaigns = <<>> THEN <<>>
    ELSE CampaignShares(Head(campaigns), Head(campaigns).demographic_breakdown.items)
         \o AllShares(Tail(campaigns))

\* the sum of a field of the contributions whose record has attr = val
RECURSIVE ShareSum(_, _, _, _)
ShareSum(shares, attr, val, field) ==
    IF shares = <<>> THEN Num(0)
    ELSE JsAdd(IF Head(shares).demo[attr] = val THEN Head(shares)[field] ELSE Num(0),
               ShareSum(Tail(shares), attr, val, field))

BucketIsShareSum(bucket, shares, attr, val) ==
    /\ bucket.spend = ShareSum(shares, attr, val, "spend")
    /\ bucket.revenue = ShareSum(shares, attr, val, "revenue")

\* the accumulators hold the sums of the contributions shares
HoldsShareSums(metrics, shares) ==
    /\ BucketIsShareSum(metrics.maleData, shares, "gender", "Male")
    /\ BucketIsShareSum(metrics.femaleData, shares, "gender", "Female")
    /\ \A i \in 1..Len(metrics.ageGroupData) :
         BucketIsShareSum(metrics.ageGroupData[i].val, shares, "age_group",
                          metrics.ageGroupData[i].key)
    /\ \A j \in 1..Len(shares) : MapHas(metrics.ageGroupData, shares[j].demo.age_group)

\* C13: in the demographic aggregation every record contributes
\* campaign.spend * (percentage_of_audience / 100) and campaign.revenue *
\* (percentage_of_audience / 100), with the totals of its own campaign, and a
\* bucket (male, female, each age group) holds the sum of the contributions of
\* its records over all campaigns.
C13_RatioSplitPerRecord ==
    (page = "demographic" /\ view.error = "none" /\ ~view.metrics.null) =>
        HoldsShareSums(view.metrics, AllShares(Campaigns))

\* C13's case: spend 1000, revenue 2000 and one record of 25 percent give the
\* bucket spend 250 and revenue 500
C13_Witness ==
    /\ page = "demographic"
    /\ fetchPc = "loaded"
    /\ Len(Campaigns) = 1
    /\ Campaigns[1].spend = Num(1000) /\ Campaigns[1].revenue = Num(2000)
    /\ Len(Campaigns[1].demographic_breakdown.items) = 1
    /\ Campaigns[1].demographic_breakdown.items[1].percentage_of_audience = Num(25)
    /\ Campaigns[1].demographic_breakdown.items[1].gender = "Male"
    /\ view.metrics.maleData.spend = Num(250)
    /\ view.metrics.maleData.revenue = Num(500)

\* C14: a render of BubbleMap has no side effect on its input: the caller's
\* array holds the same points in the same order after the call as before, so
\* a second call on the array plots the points in the sequence of the first.
C14_BubbleMapLeavesInput ==
    [][/\ props'.data = props.data
       /\ geometry.rendered => CityNames(geometry'.bubbles) = CityNames(geometry.bubbles)]_vars

\* whether key is among the first n keys
SeenBefore(keys, n, key) == \E k \in 1..n : keys[k] = key

\* the keys of the records in the order each is first met
RECURSIVE FirstEncounters(_, _)
FirstEncounters(keys, n) ==
    IF n = 0 THEN <<>>
    ELSE IF SeenBefore(keys, n - 1, keys[n]) THEN FirstEncounters(keys, n - 1)
    ELSE Append(FirstEncounters(keys, n - 1), keys[n])

\* C15: the device and the regional aggregation return their rows in the
\* order in which each key is first met (campaigns in list order, records in
\* list order within a campaign); nothing inside the aggregation sorts them.
C15_InsertionOrder ==
    page \in {"device", "region"} =>
        RowKeys = FirstEncounters(RecordKeys, Len(RecordKeys))

\* C15's case: Cairo, Sharjah, Dubai are met in this order, which is neither
\* the alphabetical order nor an order of revenue, and the rows keep it
C15_Witness ==
    /\ page = "region"
    /\ fetchPc = "loaded"
    /\ RecordKeys = <<"Cairo", "Sharjah", "Dubai">>
    /\ RowKeys = <<"Cairo", "Sharjah", "Dubai">>
    /\ view.aggregated[2].revenue = Num(1200)

\* a city of the reference table that none of the record keys names
ReferenceOnly(keys, c) == ~SeenBefore(keys, Len(keys), cityCoordinates[c].city)

\* no row of rows is about the city
NoRowOf(rows, city) == \A i \in 1..Len(rows) : rows[i].region # city

\* no city that only the reference table names has a row or a table row
NoReferenceOnlyRow(keys, rows, table) ==
    \A c \in 1..Len(cityCoordinates) :
        ReferenceOnly(keys, c) =>
            /\ NoRowOf(rows, cityCoordinates[c].city)
            /\ NoRowOf(table, cityCoordinates[c].city)

\* C16: building the bubble point sets leaves the regional aggregation output
\* as it is: the aggregated rows are those the aggregation gives on its own
\* (keys, totals, count), totalRegions and the table rows follow them, and a
\* city that only the reference table names is in neither the rows nor the table.
C16_UnionLeavesAggregation ==
    page = "region" =>
        /\ view.aggregated = regionalData(data)
        /\ RowKeys = FirstEncounters(RecordKeys, Len(RecordKeys))
        /\ view.totalRegions = Len(FirstEncounters(RecordKeys, Len(RecordKeys)))
        /\ Len(view.tableData) = view.totalRegions
        /\ \E f \in Perms(Len(view.aggregated)) :
               view.regionalData = Reordered(view.aggregated, f)
        /\ \A i \in 1..Len(view.tableData) :
               view.tableData[i].region = view.regionalData[i].region
        /\ NoReferenceOnlyRow(RecordKeys, view.aggregated, view.tableData)
        /\ WellFormed =>
               /\ RowsAreSums(view.aggregated, AllRecords, "region", "region")
               /\ TotalsAreSums(view, AllRecords)

\* C16's case: two regions are aggregated, one of them a reference city, and
\* the point set holds the twenty reference cities, the others at the sentinel
C16_Witness ==
    /\ page = "region"
    /\ fetchPc = "loaded"
    /\ RowKeys = <<"Dubai", "Sharjah">>
    /\ Len(view.bubbleMapDataRevenue) = 20
    /\ \E k \in 1..20 : /\ view.bubbleMapDataRevenue[k].city = "Cairo"
                        /\ view.bubbleMapDataRevenue[k].value = Num(1000)
    /\ view.totalRegions = 2
    /\ Len(view.tableData) = 2

\* the series the chart was given has at least two points, all of one value
FlatSeries ==
    /\ Len(props.data) >= 2
    /\ \A i \in 1..Len(props.data) : props.data[i].value = props.data[1].value

\* C17: a line-chart series of at least two points whose values are all equal
\* (range 0) is drawn with the range 1 in the place of 0: every point gets the
\* same finite vertical position, and pathD and areaPathD hold no NaN.
C17_FlatSeriesIsFinite ==
    (geometry.rendered /\ FlatSeries) =>
        /\ \A i \in 1..Len(geometry.points) :
               /\ IsFinite(geometry.points[i].y)
               /\ geometry.points[i].y = geometry.points[1].y
        /\ NoNaN(geometry.pathD)
        /\ NoNaN(geometry.areaPathD)

\* C17's case: two points of value 3 are drawn at one height
C17_Witness ==
    /\ geometry.rendered
    /\ Len(props.data) = 2
    /\ props.data[1].value = Num(3) /\ props.data[2].value = Num(3)
    /\ props.data[1].label = "A" /\ props.data[2].label = "B"
    /\ geometry.points[1].y = geometry.points[2].y
    /\ geometry.points[1].x = Num(0) /\ geometry.points[2].x = Num(100)

\* a < b on finite numbers: the difference b - a is positive
Less(a, b) == Sign(JsSub(b, a)) = 1

\* the series has two different values
SpreadSeries ==
    \E i, j \in 1..Len(props.data) : props.data[i].value # props.data[j].value

\* p holds the largest, the smallest value of the drawn points
IsMaxPoint(p) == \A k \in 1..Len(geometry.points) : Leq(geometry.points[k].value, p.value)
IsMinPoint(p) == \A k \in 1..Len(geometry.points) : Leq(p.value, geometry.points[k].value)

\* C18: for a line-chart series with distinct minimum and maximum every
\* point's y is in [0, chartHeight], a point of the maximum value has y = 0, a
\* point of the minimum value has y = chartHeight, and a larger value has a
\* smaller y.
C18_VerticalMapping ==
    (geometry.rendered /\ SpreadSeries) =>
        /\ \A i \in 1..Len(geometry.points) :
               /\ IsFinite(geometry.points[i].y)
               /\ Leq(Num(0), geometry.points[i].y)
               /\ Leq(geometry.points[i].y, Num(props.height - 80))
               /\ IsMaxPoint(geometry.points[i]) => geometry.points[i].y = Num(0)
               /\ IsMinPoint(geometry.points[i]) =>
                      geometry.points[i].y = Num(props.height - 80)
        /\ \A i, j \in 1..Len(geometry.points) :
               Less(geometry.points[j].value, geometry.points[i].value) =>
                   Less(geometry.points[i].y, geometry.points[j].y)

\* C18's case: the values -1, 3, 1 are drawn at the bottom, at the top and
\* strictly between
C18_Witness ==
    /\ geometry.rendered
    /\ props.height = 300
    /\ ValuesOf(props.data) = <<Num(-1), Num(3), Num(1)>>
    /\ geometry.points[1].y = Num(220)
    /\ geometry.points[2].y = Num(0)
    /\ geometry.points[3].y = Num(110)

\* the longitude and latitude of the point a bubble was drawn for
PlaceOf(city) == CHOOSE item \in BubbleItems : item.city = city

\* (longitude + 180) / 360 * 1000 and (90 - latitude) / 180 * height, in
\* lowest terms
LinearX(x) == Rat((x.n + 180 * x.d) * 25, 9 * x.d)
LinearY(y, height) == Rat((90 * y.d - y.n) * height, 180 * y.d)

\* the bubble is where the linear projection puts its point, inside the view box
ProjectedLinearly(b, place, height) ==
    /\ b.svgX = LinearX(place.x)
    /\ b.svgY = LinearY(place.y, height)
    /\ place.x = Num(-180) => b.svgX = Num(0)
    /\ place.x = Num(180) => b.svgX = Num(1000)
    /\ place.y = Num(90) => b.svgY = Num(0)
    /\ place.y = Num(-90) => b.svgY = Num(height)
    /\ Leq(Num(0), b.svgX) /\ Leq(b.svgX, Num(1000))
    /\ Leq(Num(0), b.svgY) /\ Leq(b.svgY, Num(height))

\* svgX grows with the longitude and svgY falls with the latitude
ProjectedInOrder(a, b) ==
    /\ Less(PlaceOf(a.city).x, PlaceOf(b.city).x) => Less(a.svgX, b.svgX)
    /\ Less(PlaceOf(a.city).y, PlaceOf(b.city).y) => Less(b.svgY, a.svgY)

\* C19: the bubble projection is linear: svgX = (longitude + 180) / 360 * 1000
\* and svgY = (90 - latitude) / 180 * height; longitude -180 gives 0 and 180
\* gives 1000, latitude 90 gives 0 and -90 gives height; svgX increases with
\* the longitude, svgY decreases with the latitude, and every coordinate in
\* range lands inside the view box.
C19_ProjectionLinear ==
    geometry.rendered =>
        /\ \A i \in 1..Len(geometry.bubbles) :
               ProjectedLinearly(geometry.bubbles[i], PlaceOf(geometry.bubbles[i].city),
                                 props.height)
        /\ \A i, j \in 1..Len(geometry.bubbles) :
               ProjectedInOrder(geometry.bubbles[i], geometry.bubbles[j])

\* C19's case: the two corners are drawn at the corners of the view box and
\* Dubai strictly inside
C19_Witness ==
    /\ geometry.rendered
    /\ Len(geometry.bubbles) = 3
    /\ geometry.bubbles[1].city = "North-West"
    /\ geometry.bubbles[1].svgX = Num(0) /\ geometry.bubbles[1].svgY = Num(0)
    /\ geometry.bubbles[2].city = "Dubai"
    /\ Less(Num(0), geometry.bubbles[2].svgX) /\ Less(geometry.bubbles[2].svgX, Num(1000))
    /\ Less(Num(0), geometry.bubbles[2].svgY) /\ Less(geometry.bubbles[2].svgY, Num(500))
    /\ geometry.bubbles[3].city = "South-East"
    /\ geometry.bubbles[3].svgX = Num(1000) /\ geometry.bubbles[3].svgY = Num(500)

\* what the aggregation of the page returned in the last render, and the
\* totals taken from it
AggregationOutput ==
    CASE page = "device" -> <<view.deviceData>>
      [] page = "weekly" ->
           <<view.weeklyData, view.totalRevenue, view.totalSpend, view.totalClicks,
             view.totalConversions>>
      [] page = "region" ->
           <<view.aggregated, view.totalRevenue, view.totalSpend, view.totalClicks,
             view.totalConversions, view.totalRegions>>
      [] page = "demographic" -> <<view.metrics>>

C21_HorizontalMapping ==
    (geometry.rendered /\ Len(props.data) >= 2) =>
        /\ Len(geometry.points) = Len(props.data)
        /\ \A i \in 1..Len(geometry.points) :
               geometry.points[i].x = Rat((i - 1) * 100, Len(props.data) - 1)
        /\ geometry.points[1].x = Num(0)
        /\ geometry.points[Len(geometry.points)].x = Num(100)
        /\ \A i \in 1..(Len(geometry.points) - 1) :
               Less(geometry.points[i].x, geometry.points[i + 1].x)

\* C21's case: three points are drawn at x = 0, 50 and 100
C21_Witness ==
    /\ geometry.rendered
    /\ Len(props.data) = 3
    /\ geometry.points[1].x = Num(0)
    /\ geometry.points[2].x = Num(50)
    /\ geometry.points[3].x = Num(100)

\* the drawn points are the points of the series, one for one and in its order
PointsInSeriesOrder ==
    /\ Len(geometry.points) = Len(props.data)
    /\ \A i \in 1..Len(props.data) :
           /\ geometry.points[i].label = props.data[i].label
           /\ geometry.points[i].value = props.data[i].value

\* path has one command for each drawn point, in their order: M to the first
\* and L to every later one
IsPolyline(path) ==
    /\ Len(path) = Len(geometry.points)
    /\ \A i \in 1..Len(path) :
           /\ path[i].command = (IF i = 1 THEN "M" ELSE "L")
           /\ path[i].args = <<geometry.points[i].x, geometry.points[i].y>>

\* area is path, then a line to (100, chartHeight), a line to (0, chartHeight)
\* and the close command
ClosesToBaseline(area, path, chartHeight) ==
    /\ Len(area) = Len(path) + 3
    /\ SubSeq(area, 1, Len(path)) = path
    /\ area[Len(path) + 1] = [command |-> "L", args |-> <<Num(100), chartHeight>>]
    /\ area[Len(path) + 2] = [command |-> "L", args |-> <<Num(0), chartHeight>>]
    /\ area[Len(path) + 3] = [command |-> "Z", args |-> <<>>]

\* C22: the line path descriptor has exactly one command per series point, in
\* series order: an M (move-to) for the first point and an L (line-to) for
\* every later point; the area path is that same polyline followed by a line
\* to (100, chartHeight), a line to (0, chartHeight) and a close command.
C22_PathIsPolyline ==
    (geometry.rendered /\ Len(props.data) >= 1) =>
        /\ PointsInSeriesOrder
        /\ IsPolyline(geometry.pathD)
        /\ ClosesToBaseline(geometry.areaPathD, geometry.pathD, Num(props.height - 80))

\* C22's case: three points at height 300 give the commands M, L, L and an
\* area path of six commands that ends L 100 220, L 0 220, Z
C22_Witness ==
    /\ geometry.rendered
    /\ props.height = 300
    /\ ValuesOf(props.data) = <<Num(1), Num(3), Num(2)>>
    /\ [i \in 1..3 |-> geometry.pathD[i].command] = <<"M", "L", "L">>
    /\ geometry.pathD[2].args = <<Num(50), Num(0)>>
    /\ Len(geometry.areaPathD) = 6
    /\ geometry.areaPathD[4].args = <<Num(100), Num(220)>>
    /\ geometry.areaPathD[6].command = "Z"

\* points holds a point of the city of row with the given value and
\* secondaryValue
PlottedWith(points, row, value, secondaryValue) ==
    \E j \in 1..Len(points) :
        /\ points[j].city = row.region
        /\ points[j].value = value
        /\ points[j].secondaryValue = secondaryValue

\* the aggregated row is the row of a reference city
IsReferenceRow(row) ==
    \E c \in 1..Len(cityCoordinates) : cityCoordinates[c].city = row.region

\* C23: a reference city with a matching aggregated row is plotted with value
\* equal to the row's revenue total (spend total in the spend map) and
\* secondaryValue equal to the other total, for every value of the total, 0
\* too; the sentinel 1000 is for cities with no matching row only. Stated
\* for snapshots whose records hold numbers in every metric.
C23_MatchedCityTotals ==
    (page = "region" /\ WellFormed) =>
        \A i \in 1..Len(view.aggregated) :
            IsReferenceRow(view.aggregated[i]) =>
                /\ PlottedWith(view.bubbleMapDataRevenue, view.aggregated[i],
                               view.aggregated[i].revenue, view.aggregated[i].spend)
                /\ PlottedWith(view.bubbleMapDataSpend, view.aggregated[i],
                               view.aggregated[i].spend, view.aggregated[i].revenue)

\* the sum of a field over the age-group buckets
RECURSIVE AgeGroupSum(_, _)
AgeGroupSum(ageGroupData, field) ==
    IF ageGroupData = <<>> THEN Num(0)
    ELSE JsAdd(Head(ageGroupData).val[field], AgeGroupSum(Tail(ageGroupData), field))

\* the gender buckets and the age-group buckets hold the same sum of field
GroupingsAgree(metrics, field) ==
    JsAdd(metrics.maleData[field], metrics.femaleData[field])
        = AgeGroupSum(metrics.ageGroupData, field)

\* C24: in the demographic aggregation no record is dropped from either
\* grouping: every record's spend and revenue contribution goes to one gender
\* bucket and one age-group bucket, so for every campaign list the sum of
\* spend, and of revenue, over the gender buckets equals the sum over the
\* age-group buckets.
C24_GroupingsAgree ==
    (page = "demographic" /\ view.error = "none" /\ ~view.metrics.null) =>
        /\ GroupingsAgree(view.metrics, "spend")
        /\ GroupingsAgree(view.metrics, "revenue")

\* a total of the aggregated row of a device, 0 when the device has no row
DeviceTotal(rows, name, field) ==
    IF HasDevice(rows, name) THEN FindDevice(rows, name)[field] ELSE Num(0)

\* the three ratios of a device are 0 where their denominator is 0
ZeroWhereDenominatorZero(rows, name, ctr, conversionRate, roas) ==
    /\ DeviceTotal(rows, name, "impressions") = Num(0) => ctr = Num(0)
    /\ DeviceTotal(rows, name, "clicks") = Num(0) => conversionRate = Num(0)
    /\ DeviceTotal(rows, name, "spend") = Num(0) => roas = Num(0)

\* without a row of the device every total of it is 0 and so is every ratio
AbsentDeviceIsZero(rows, name, totals, ctr, conversionRate, roas) ==
    ~HasDevice(rows, name) =>
        /\ \A f \in {"impressions", "clicks", "conversions", "spend", "revenue", "traffic"} :
               totals[f] = Num(0)
        /\ ctr = Num(0) /\ conversionRate = Num(0) /\ roas = Num(0)

\* C25: in the device view's summary metrics each derived ratio (Mobile and
\* Desktop CTR, conversion rate and ROAS) is 0 whenever its denominator
\* (impressions, clicks or spend) is 0, also when the Mobile or Desktop row is
\* absent from the aggregation, where all totals of that device default to 0.
C25_ZeroDenominatorIsZero ==
    page = "device" =>
        /\ ZeroWhereDenominatorZero(view.deviceData, "Mobile", view.mobileCTR,
                                    view.mobileConversionRate, view.mobileROAS)
        /\ ZeroWhereDenominatorZero(view.deviceData, "Desktop", view.desktopCTR,
                                    view.desktopConversionRate, view.desktopROAS)
        /\ AbsentDeviceIsZero(view.deviceData, "Mobile", view.mobileData, view.mobileCTR,
                              view.mobileConversionRate, view.mobileROAS)
        /\ AbsentDeviceIsZero(view.deviceData, "Desktop", view.desktopData,
                              view.desktopCTR, view.desktopConversionRate,
                              view.desktopROAS)

\* C25's case: the Mobile row has spend 0 and revenue 3 and there is no
\* Desktop row; the ROAS of both is 0
C25_Witness ==
    /\ page = "device"
    /\ fetchPc = "loaded"
    /\ HasDevice(view.deviceData, "Mobile")
    /\ ~HasDevice(view.deviceData, "Desktop")
    /\ view.mobileData.spend = Num(0)
    /\ view.mobileData.revenue = Num(3)
    /\ view.mobileROAS = Num(0)
    /\ view.desktopData.spend = Num(0)
    /\ view.desktopROAS = Num(0)

\* the last render saw the value of data: its values are those of a render of
\* data (no render has run yet right after setData)
RenderedFromData ==
    fetchPc # "setData" => \E order \in SortOrders(page, data) : view = Render(page, data, order)

\* the aggregation of the page returned no row (null metrics on the
\* demographic page) and nothing was thrown
EmptyOutput ==
    /\ view.error = "none"
    /\ CASE page = "device" -> view.deviceData = <<>>
         [] page = "weekly" -> view.weeklyData = <<>>
         [] page = "region" -> view.aggregated = <<>> /\ view.regionalData = <<>>
         [] page = "demographic" -> view.metrics.null /\ ~view.metrics.threw

\* C26: the fetch lifecycle of a page: it starts with loading = true and data
\* = null; the fetch succeeds (data is set to the fetched snapshot) or fails
\* (data stays null), and either way loading becomes false in the end and
\* never goes back to true; the aggregation sees null or the one complete
\* snapshot only, and with data = null it yields no row (null metrics on the
\* demographic page) and raises no error.
C26_FetchLifecycle ==
    /\ loading = TRUE /\ data = Null
    /\ [](fetchPc = "failed" => data = Null)
    /\ [](fetchPc \in {"setData", "finally", "loaded"} => ~data.null)
    /\ [][data' # data => (data = Null /\ fetchPc = "json")]_vars
    /\ [][~loading => ~loading']_vars
    /\ [](fetchPc \in {"loaded", "failed"} <=> ~loading)
    /\ <>[](~loading)
    /\ []RenderedFromData
    /\ [](data = Null => EmptyOutput)

\* C26's case: the fetch of the region page succeeded with one Dubai record,
\* the render after setLoading(false) has run and shows its row
C26_Witness ==
    /\ page = "region"
    /\ fetchPc = "loaded"
    /\ ~loading
    /\ ~data.null
    /\ Len(Campaigns) = 1
    /\ Len(view.aggregated) = 1
    /\ view.aggregated[1].region = "Dubai"

=============================================================================
